---- MODULE Spec2Model ----
(***************************************************************************)
(* Model of the go-smbios structure-stream decoder (smbios/decoder.go):    *)
(* Decoder.Decode, Decoder.next and the framing helpers parseHeader,       *)
(* parseFormatted, parseStrings and parseString, together with the         *)
(* per-type interpretation that Decoder.next performs on every record.     *)
(*                                                                         *)
(* Bytes are the integers 0..255.  A Go string is modelled as the sequence *)
(* of its bytes; the empty sequence is the Go zero value "" (an absent     *)
(* field).  A nil slice and an empty slice are both <<>>.                  *)
(***************************************************************************)
EXTENDS Integers, Sequences, FiniteSets, TLC

(***************************************************************************)
(* Bounds of the model.                                                    *)
(***************************************************************************)
\* Largest string index written into a string-referencing formatted field.
MaxIdx == 3
\* Largest number of records in front of the end of a multi-record stream.
MaxRecords == 2
\* Out-of-range reads through an unsafe pointer return 0, 255 or 1..MaxOOB.
MaxOOB == 1
\* Largest number of bytes that follow a complete entry point.
MaxTrailing == 2
\* Largest number of 16-byte paragraphs in a scanned memory image.
MaxParagraphs == 4
\* Largest number of table bytes in the data the Windows firmware call writes.
MaxTableData == 4

(***************************************************************************)
(* Program constants (decoder.go, const block).                            *)
(***************************************************************************)
headerLen == 4
typeEndOfTable == 127
extendedSizeThreyshold == 32767
mbToByteConvRatio == 1048576
kbToByteConvRatio == 1024
sizeAsPer2_1 == 17
sizeAsPer2_3 == 23
sizeAsPer2_6 == 24
sizeAsPer2_7 == 30
sizeAsPer2_8 == 36

Byte == 0..255

(***************************************************************************)
(* Generic helpers.                                                        *)
(***************************************************************************)
\* The bytes of s from 0-based offset lo (inclusive) to hi (exclusive): s[lo:hi].
Slice(s, lo, hi) == SubSeq(s, lo + 1, hi)

\* binary.LittleEndian.Uint16 of the two bytes lo, hi.
LittleEndianUint16(lo, hi) == lo + 256 * hi

\* bytes.TrimRight(raw, "\x00"): drop every trailing zero byte.
RECURSIVE TrimRightNull(_)
TrimRightNull(raw) ==
    IF raw # <<>> /\ raw[Len(raw)] = 0
    THEN TrimRightNull(SubSeq(raw, 1, Len(raw) - 1))
    ELSE raw

(***************************************************************************)
(* Framing.  p is the number of bytes of the stream `in` the bufio.Reader  *)
(* has handed out so far; in[p+1] is the next unread byte.  Every helper   *)
(* returns a record with err = "nil" on success.                           *)
(***************************************************************************)
\* io.ReadFull(d.br, d.b[:n]): EOF when no byte is left, ErrUnexpectedEOF
\* when some but fewer than n are left.
ReadFullErr(in, p, n) ==
    IF p + n <= Len(in) THEN "nil"
    ELSE IF p >= Len(in) THEN "EOF" ELSE "ErrUnexpectedEOF"

\* Both reads below go through the Decoder's one buffer d.b: w is what the
\* read stored at the front of d.b (on a short read, the bytes that were
\* left), and shared tells whether the slice handed back is d.b itself.
parseHeader(in, p) ==
    IF ReadFullErr(in, p, headerLen) # "nil"
    THEN [err |-> ReadFullErr(in, p, headerLen), h |-> <<>>, pos |-> Len(in),
          w |-> Slice(in, p, Len(in))]
    ELSE [err |-> "nil",
          h   |-> [Type   |-> in[p + 1],
                   Length |-> in[p + 2],
                   Handle |-> LittleEndianUint16(in[p + 3], in[p + 4])],
          pos |-> p + headerLen,
          w   |-> Slice(in, p, p + headerLen)]

\* parseFormatted with a slip: d.b[:l] is returned without the copy.
parseFormatted_NoCopy(in, p, l) ==
    IF l < 0
    THEN [err |-> "ErrUnexpectedEOF", fb |-> <<>>, pos |-> p,
          w |-> <<>>, shared |-> FALSE]
    ELSE IF l = 0
    THEN [err |-> "nil", fb |-> <<>>, pos |-> p, w |-> <<>>, shared |-> FALSE]
    ELSE IF ReadFullErr(in, p, l) # "nil"
    THEN [err |-> ReadFullErr(in, p, l), fb |-> <<>>, pos |-> Len(in),
          w |-> Slice(in, p, Len(in)), shared |-> FALSE]
    ELSE [err |-> "nil", fb |-> Slice(in, p, p + l), pos |-> p + l,
          w |-> Slice(in, p, p + l), shared |-> TRUE]

\* fb := make([]byte, l); copy(fb, d.b[:l]): the block returned is new storage.
parseFormatted(in, p, l) ==
    IF l < 0
    THEN [err |-> "ErrUnexpectedEOF", fb |-> <<>>, pos |-> p,
          w |-> <<>>, shared |-> FALSE]
    ELSE IF l = 0
    THEN [err |-> "nil", fb |-> <<>>, pos |-> p, w |-> <<>>, shared |-> FALSE]
    ELSE IF ReadFullErr(in, p, l) # "nil"
    THEN [err |-> ReadFullErr(in, p, l), fb |-> <<>>, pos |-> Len(in),
          w |-> Slice(in, p, Len(in)), shared |-> FALSE]
    ELSE [err |-> "nil", fb |-> Slice(in, p, p + l), pos |-> p + l,
          w |-> Slice(in, p, p + l), shared |-> FALSE]

\* 1-based position of the first zero byte after p, or 0 when there is none.
IndexNull(in, p) ==
    IF \E q \in (p + 1)..Len(in) : in[q] = 0
    THEN CHOOSE q \in (p + 1)..Len(in) :
             in[q] = 0 /\ \A r \in (p + 1)..(q - 1) : in[r] # 0
    ELSE 0

parseString(in, p) ==
    LET q == IndexNull(in, p) IN
    IF q = 0
    THEN [err |-> "EOF", str |-> <<>>, more |-> FALSE, pos |-> Len(in)]
    ELSE IF q >= Len(in)
    THEN [err |-> "EOF", str |-> <<>>, more |-> FALSE, pos |-> q]
    ELSE IF in[q + 1] # 0
    THEN [err |-> "nil", str |-> TrimRightNull(Slice(in, p, q)),
          more |-> TRUE, pos |-> q]
    ELSE [err |-> "nil", str |-> TrimRightNull(Slice(in, p, q)),
          more |-> FALSE, pos |-> q + 1]

RECURSIVE parseStringsLoop(_, _, _)
parseStringsLoop(in, p, acc) ==
    LET r == parseString(in, p) IN
    IF r.err # "nil" THEN [err |-> r.err, ss |-> <<>>, pos |-> r.pos]
    ELSE IF r.more THEN parseStringsLoop(in, r.pos, Append(acc, r.str))
    ELSE [err |-> "nil", ss |-> Append(acc, r.str), pos |-> r.pos]

\* parseStrings with a slip: the empty string set discards one byte only.
parseStrings_DiscardOne(in, p) ==
    IF p + 2 > Len(in) THEN [err |-> "EOF", ss |-> <<>>, pos |-> p]
    ELSE IF in[p + 1] = 0 /\ in[p + 2] = 0
    THEN [err |-> "nil", ss |-> <<>>, pos |-> p + 1]
    ELSE parseStringsLoop(in, p, <<>>)

parseStrings(in, p) ==
    IF p + 2 > Len(in) THEN [err |-> "EOF", ss |-> <<>>, pos |-> p]
    ELSE IF in[p + 1] = 0 /\ in[p + 2] = 0
    THEN [err |-> "nil", ss |-> <<>>, pos |-> p + 2]
    ELSE parseStringsLoop(in, p, <<>>)

(***************************************************************************)
(* Text conversions used by the interpretation.                            *)
(***************************************************************************)
\* ASCII code of the upper-case hexadecimal digit of n in 0..15 (%X).
HexDigit(n) == IF n < 10 THEN 48 + n ELSE 55 + n

\* fmt.Sprintf("%02X", b) for a byte b.
Hex02(b) == <<HexDigit(b \div 16), HexDigit(b % 16)>>

\* fmt.Sprintf("%04X", w) for a uint16 w.
Hex04(w) == Hex02(w \div 256) \o Hex02(w % 256)

\* fmt.Sprintf("%01X", b) for a byte b: no padding beyond one digit.
Hex01(b) == IF b < 16 THEN <<HexDigit(b)>> ELSE Hex02(b)

\* strconv.Itoa(n) for n >= 0.
RECURSIVE Itoa(_)
Itoa(n) == IF n < 10 THEN <<48 + n>> ELSE Itoa(n \div 10) \o <<48 + (n % 10)>>

\* strings.TrimSpace on a string of ASCII bytes.
IsSpace(c) == c \in {9, 10, 11, 12, 13, 32}

RECURSIVE TrimLeftSpace(_)
TrimLeftSpace(s) ==
    IF s # <<>> /\ IsSpace(s[1]) THEN TrimLeftSpace(Tail(s)) ELSE s

RECURSIVE TrimRightSpace(_)
TrimRightSpace(s) ==
    IF s # <<>> /\ IsSpace(s[Len(s)])
    THEN TrimRightSpace(SubSeq(s, 1, Len(s) - 1))
    ELSE s

TrimSpace(s) == TrimRightSpace(TrimLeftSpace(s))

(***************************************************************************)
(* uint64 arithmetic.  A uint64 is kept as its eight bytes, least          *)
(* significant first, so that no intermediate value leaves the range of    *)
(* the model checker's integers.                                           *)
(***************************************************************************)
U64Zero == <<0, 0, 0, 0, 0, 0, 0, 0>>

\* uint64(x) for a uint16 x.
U64FromUint16(x) == <<x % 256, x \div 256, 0, 0, 0, 0, 0, 0>>

\* uint64(binary.LittleEndian.Uint32(b)) for the four bytes b.
U64FromBytes4(b) == <<b[1], b[2], b[3], b[4], 0, 0, 0, 0>>

\* x * k modulo 2^64, for a multiplier k below 2^22.
RECURSIVE U64MulFrom(_, _, _, _)
U64MulFrom(x, k, i, carry) ==
    IF i > 8 THEN <<>>
    ELSE <<(x[i] * k + carry) % 256>>
         \o U64MulFrom(x, k, i + 1, (x[i] * k + carry) \div 256)

U64Mul(x, k) == U64MulFrom(x, k, 1, 0)

(***************************************************************************)
(* Reads through the unsafe struct casts.  A cast of &fb[0] to a struct    *)
(* pointer gives field reads at fixed offsets from the start of fb with no *)
(* bounds check: an offset inside fb reads fb, an offset at or past        *)
(* len(fb) reads whatever follows the allocation, here the byte oob.       *)
(***************************************************************************)
UnsafeByte(fb, oob, off) == IF off < Len(fb) THEN fb[off + 1] ELSE oob

\* A uint16 struct field at byte offset off, in the byte order of the build.
UnsafeUint16(fb, oob, off, big) ==
    IF big
    THEN LittleEndianUint16(UnsafeByte(fb, oob, off + 1), UnsafeByte(fb, oob, off))
    ELSE LittleEndianUint16(UnsafeByte(fb, oob, off), UnsafeByte(fb, oob, off + 1))

(***************************************************************************)
(* The projection attached to every structure (SystemInfo).  A nil pointer *)
(* is <<>>, a non-nil pointer is the one-element sequence of its target.   *)
(***************************************************************************)
ZeroSystemInfo ==
    [SystemManufacturerRef |-> <<>>,
     SystemProductName     |-> <<>>,
     BiosSerial            |-> <<>>,
     VirtualMachineUUID    |-> <<>>,
     MotherboardAdapter    |-> <<>>,
     Memory                |-> <<>>,
     ProcessorType         |-> <<>>,
     ProcessorID           |-> <<>>,
     BaseboardInfo         |-> <<>>,
     SystemEnclosure       |-> <<>>,
     Processors            |-> <<>>,
     PhyMemory             |-> <<>>,
     BiosInfo              |-> <<>>]

\* The result of interpreting one record: the (possibly extended) string
\* vector and the projection, or a run-time panic.
Interp(ss, si) == [panic |-> FALSE, ss |-> ss, si |-> si]
Panic == [panic |-> TRUE, ss |-> <<>>, si |-> ZeroSystemInfo]

\* ss[i] with Go's bounds check, i 0-based.
InRange(ss, i) == i >= 0 /\ i < Len(ss)

(***************************************************************************)
(* Type 1, System information (struct SMBIOSSystemInfo: Manufacturer at    *)
(* offset 0, ProductName 1, Version 2, SN 3, UUID 4..20).                  *)
(***************************************************************************)
\* The scan loop over the 16 UUID bytes; returns <<only0x00, only0xFF>>.
RECURSIVE UUIDScan(_, _, _, _)
UUIDScan(uuid, i, only0x00, only0xFF) ==
    IF i < 16 /\ (only0x00 = 1 \/ only0xFF = 1)
    THEN UUIDScan(uuid, i + 1,
                  IF uuid[i] # 0 THEN 0 ELSE only0x00,
                  IF uuid[i] # 255 THEN 0 ELSE only0xFF)
    ELSE <<only0x00, only0xFF>>

\* The UUID text with a slip: the first three groups in wire order.
UUIDString_WireOrder(uuid) ==
    Hex02(uuid[0]) \o Hex02(uuid[1]) \o Hex02(uuid[2]) \o Hex02(uuid[3]) \o <<45>>
    \o Hex02(uuid[4]) \o Hex02(uuid[5]) \o <<45>>
    \o Hex02(uuid[6]) \o Hex02(uuid[7]) \o <<45>>
    \o Hex02(uuid[8]) \o Hex02(uuid[9]) \o <<45>>
    \o Hex02(uuid[10]) \o Hex02(uuid[11]) \o Hex02(uuid[12])
    \o Hex02(uuid[13]) \o Hex02(uuid[14]) \o Hex02(uuid[15])

\* The Sprintf of the sixteen UUID bytes (uuid is indexed 0..15).
UUIDString(uuid) ==
    Hex02(uuid[3]) \o Hex02(uuid[2]) \o Hex02(uuid[1]) \o Hex02(uuid[0]) \o <<45>>
    \o Hex02(uuid[5]) \o Hex02(uuid[4]) \o <<45>>
    \o Hex02(uuid[7]) \o Hex02(uuid[6]) \o <<45>>
    \o Hex02(uuid[8]) \o Hex02(uuid[9]) \o <<45>>
    \o Hex02(uuid[10]) \o Hex02(uuid[11]) \o Hex02(uuid[12])
    \o Hex02(uuid[13]) \o Hex02(uuid[14]) \o Hex02(uuid[15])

\* The string vector after the UUID block: the rendered UUID is appended.
SystemStrings(ss, render, strUUID) ==
    IF render THEN Append(ss, strUUID) ELSE ss

\* The three string copies of the type 1 block, as the code assigns them.
SystemStringFields(si, ss, Manufacturer, ProductName, SN) ==
    [si EXCEPT
       !.SystemManufacturerRef =
           IF ProductName > 0 THEN ss[ProductName] ELSE @,
       !.SystemProductName =
           IF Manufacturer > 0 THEN ss[Manufacturer] ELSE @,
       !.BiosSerial =
           IF SN > 0 THEN ss[SN] ELSE @]

interpSystem(h, fb, ss, oob) ==
    IF Len(fb) = 0 THEN Panic
    ELSE
      LET Manufacturer == UnsafeByte(fb, oob, 0)
          ProductName  == UnsafeByte(fb, oob, 1)
          SN           == UnsafeByte(fb, oob, 3)
          uuid         == [i \in 0..15 |-> UnsafeByte(fb, oob, 4 + i)]
          scan         == UUIDScan(uuid, 0, 1, 1)
          render       == h.Length > 8 /\ scan[1] = 0 /\ scan[2] = 0
          strUUID      == UUIDString(uuid)
          ss1          == SystemStrings(ss, render, strUUID)
          si1          == [ZeroSystemInfo EXCEPT
                             !.VirtualMachineUUID =
                                 IF render THEN strUUID ELSE @]
      IN IF \/ (ProductName > 0 /\ ~InRange(ss1, ProductName - 1))
            \/ (Manufacturer > 0 /\ ~InRange(ss1, Manufacturer - 1))
            \/ (SN > 0 /\ ~InRange(ss1, SN - 1))
         THEN Panic
         ELSE Interp(ss1, SystemStringFields(si1, ss1, Manufacturer, ProductName, SN))

(***************************************************************************)
(* Type 2, Baseboard (struct SMBIOSBaseboardInfo: Manufacturer 0,          *)
(* Product 1, Version 2, SerialNumber 3).                                  *)
(***************************************************************************)
\* The bounds-checked lookup used by types 2, 17 and 0 (vendor, version):
\* n > 0 && n <= byte(len(ss)) selects ss[n-1], anything else leaves "".
CheckedString(ss, n) ==
    IF n > 0 /\ n <= Len(ss) % 256 THEN ss[n] ELSE <<>>

interpBaseboard(h, fb, ss, oob) ==
    IF Len(fb) = 0 THEN Panic
    ELSE
      LET bbInfo == [Manufacturer |-> CheckedString(ss, UnsafeByte(fb, oob, 0)),
                     Product      |-> CheckedString(ss, UnsafeByte(fb, oob, 1)),
                     Version      |-> CheckedString(ss, UnsafeByte(fb, oob, 2)),
                     SerialNumber |-> CheckedString(ss, UnsafeByte(fb, oob, 3))]
      IN Interp(ss, [ZeroSystemInfo EXCEPT
                       !.MotherboardAdapter = bbInfo.SerialNumber,
                       !.BaseboardInfo = <<bbInfo>>])

(***************************************************************************)
(* Type 3, System enclosure.                                               *)
(***************************************************************************)
\* Offset of the Type field of struct SystemEnclosure.
SystemEnclosureTypeOffset == 0

interpEnclosure(h, fb, ss, oob) ==
    IF Len(fb) = 0 THEN Panic
    ELSE Interp(ss, [ZeroSystemInfo EXCEPT
                       !.SystemEnclosure =
                           <<[Type |-> UnsafeByte(fb, oob, SystemEnclosureTypeOffset) % 128]>>])

(***************************************************************************)
(* Type 4, Processor (struct SMBIOSProcessorType with Go's field           *)
(* alignment: ProcessorType 1, ProcessorFamily 2, ProcessorManufacturer 3, *)
(* ProcessorID 4..12 as four uint16, CurrentSpeed 18, CoreCount 31,        *)
(* CoreCount2 38).                                                         *)
(***************************************************************************)
ZeroProcessor ==
    [ID |-> <<>>, Family |-> 0, CoreCount |-> 0, Product |-> <<>>,
     ClockSpeedInMHz |-> 0]

\* The Sprintf of the four ProcessorID words (id is indexed 0..3).
ProcessorIDString(id) ==
    Hex04(id[3]) \o Hex04(id[2]) \o Hex04(id[1]) \o Hex04(id[0])

\* The core count chosen by the version test.
ProcessorCoreCount(ver, CoreCount, CoreCount2) ==
    IF ver.Major >= 3 \/ ver.Minor < 5 \/ ver.Minor > 9
    THEN (IF CoreCount2 > 0 THEN CoreCount2 ELSE 0)
    ELSE (IF CoreCount > 0 THEN CoreCount ELSE 0)

\* The manufacturer lookup of the processor block.
ProcessorProduct(ss, n) ==
    IF n > 0 /\ n < Len(ss) % 256 THEN TrimSpace(ss[n + 1]) ELSE <<>>

interpProcessor(h, fb, ss, ver, oob, big) ==
    IF Len(fb) = 0 THEN Panic
    ELSE
      LET ProcessorType   == UnsafeByte(fb, oob, 1)
          ProcessorFamily == UnsafeByte(fb, oob, 2)
          ProcessorManufacturer == UnsafeByte(fb, oob, 3)
          id == [i \in 0..3 |-> UnsafeUint16(fb, oob, 4 + 2 * i, big)]
          CurrentSpeed == UnsafeUint16(fb, oob, 18, big)
          CoreCount    == UnsafeByte(fb, oob, 31)
          CoreCount2   == UnsafeUint16(fb, oob, 38, big)
          isValidProcessorID == \E i \in 0..3 : id[i] > 0
          cpuID == IF isValidProcessorID THEN ProcessorIDString(id) ELSE <<>>
          processor ==
              [ID     |-> cpuID,
               Family |-> ProcessorFamily,
               CoreCount |-> ProcessorCoreCount(ver, CoreCount, CoreCount2),
               Product |-> ProcessorProduct(ss, ProcessorManufacturer),
               ClockSpeedInMHz |-> CurrentSpeed]
      IN Interp(ss, [ZeroSystemInfo EXCEPT
                       !.ProcessorID = cpuID,
                       !.ProcessorType =
                           IF ProcessorType > 0 THEN Hex01(ProcessorType) ELSE @,
                       !.Processors = <<processor>>])

(***************************************************************************)
(* Type 17, Memory device.  The fields are copied out of fb with bounds-   *)
(* checked slices, gated on len(fb); only the fields the projection uses   *)
(* are kept here.                                                          *)
(***************************************************************************)
MemoryInfoRead(fb) ==
    LET fbLen == Len(fb) IN
    [TotalWidth   |-> IF fbLen >= sizeAsPer2_1
                      THEN LittleEndianUint16(fb[5], fb[6]) ELSE 0,
     DataWidth    |-> IF fbLen >= sizeAsPer2_1
                      THEN LittleEndianUint16(fb[7], fb[8]) ELSE 0,
     Size         |-> IF fbLen >= sizeAsPer2_1
                      THEN LittleEndianUint16(fb[9], fb[10]) ELSE 0,
     Manufacturer |-> IF fbLen >= sizeAsPer2_3 THEN fb[20] ELSE 0,
     SerialNumber |-> IF fbLen >= sizeAsPer2_3 THEN fb[21] ELSE 0,
     ExtendedSize |-> IF fbLen >= sizeAsPer2_7
                      THEN Slice(fb, 24, 28) ELSE <<0, 0, 0, 0>>]

\* memSize and its conversion to bytes (a uint64, least significant byte first).
MemorySizeInBytes(fb, memInfo) ==
    LET memSize == IF memInfo.Size = extendedSizeThreyshold /\ Len(fb) >= sizeAsPer2_7
                   THEN U64FromBytes4(memInfo.ExtendedSize)
                   ELSE U64FromUint16(memInfo.Size)
    IN IF fb[10] \div 128 = 0
       THEN U64Mul(memSize, mbToByteConvRatio)
       ELSE U64Mul(memSize, kbToByteConvRatio)

\* The append with a slip: the entry is appended whatever its size.
AppendPhyMemory_Always(PhyMemory, physicalMemory) ==
    Append(PhyMemory, physicalMemory)

\* if physicalMemory.SizeInBytes != 0 { PhyMemory = append(PhyMemory, ...) }
AppendPhyMemory(PhyMemory, physicalMemory) ==
    IF physicalMemory.SizeInBytes # U64Zero
    THEN Append(PhyMemory, physicalMemory)
    ELSE PhyMemory

interpMemory(h, fb, ss, oob) ==
    IF Len(fb) < 10 THEN Panic
    ELSE
      LET memInfo == MemoryInfoRead(fb)
          physicalMemory ==
              [Manufacturer |-> CheckedString(ss, memInfo.Manufacturer),
               SerialNumber |-> CheckedString(ss, memInfo.SerialNumber),
               SizeInBytes  |-> MemorySizeInBytes(fb, memInfo),
               TotalWidth   |-> memInfo.TotalWidth,
               DataWidth    |-> memInfo.DataWidth]
      IN Interp(ss, [ZeroSystemInfo EXCEPT
                       !.Memory = physicalMemory.SerialNumber,
                       !.PhyMemory =
                           AppendPhyMemory(ZeroSystemInfo.PhyMemory,
                                           physicalMemory)])

(***************************************************************************)
(* Type 0, BIOS information (struct BIOSInfoRead).                         *)
(***************************************************************************)
\* Offsets of the Vendor, Version and ReleaseDate fields of BIOSInfoRead.
BIOSVendorOffset == 0
BIOSVersionOffset == 1
BIOSReleaseDateOffset == 4

\* strconv.Itoa(Major) + "." + strconv.Itoa(Minor)
BiosVersionString(ver) ==
    IF ver.Major >= 0 /\ ver.Minor >= 0
    THEN Itoa(ver.Major) \o <<46>> \o Itoa(ver.Minor)
    ELSE <<>>

interpBIOS(h, fb, ss, ver, oob) ==
    IF Len(fb) = 0 THEN Panic
    ELSE
      LET Vendor      == UnsafeByte(fb, oob, BIOSVendorOffset)
          Version     == UnsafeByte(fb, oob, BIOSVersionOffset)
          ReleaseDate == UnsafeByte(fb, oob, BIOSReleaseDateOffset)
      IN IF ReleaseDate > 0 /\ ~InRange(ss, ReleaseDate - 1)
         THEN Panic
         ELSE Interp(ss, [ZeroSystemInfo EXCEPT
                !.BiosInfo =
                   <<[Vendor      |-> CheckedString(ss, Vendor),
                      Version     |-> CheckedString(ss, Version),
                      BiosVersion |-> BiosVersionString(ver),
                      ReleaseDate |-> IF ReleaseDate > 0
                                      THEN ss[ReleaseDate] ELSE <<>>]>>])

(***************************************************************************)
(* Decoder.next: one record from the stream.  status is "ok" with the      *)
(* structure s, "error" with err, or "panic".                              *)
(***************************************************************************)
interpret(h, fb, ss, ver, oob, big) ==
    CASE h.Type = 1  -> interpSystem(h, fb, ss, oob)
      [] h.Type = 2  -> interpBaseboard(h, fb, ss, oob)
      [] h.Type = 3  -> interpEnclosure(h, fb, ss, oob)
      [] h.Type = 4  -> interpProcessor(h, fb, ss, ver, oob, big)
      [] h.Type = 17 -> interpMemory(h, fb, ss, oob)
      [] h.Type = 0  -> interpBIOS(h, fb, ss, ver, oob)
      [] OTHER       -> Interp(ss, ZeroSystemInfo)

\* w lists what the header read and the formatted read stored in d.b.
NextError(err, p, w) ==
    [status |-> "error", err |-> err, s |-> <<>>, pos |-> p,
     w |-> w, shared |-> FALSE]

next(in, p, ver, oob, big) ==
    LET hr == parseHeader(in, p) IN
    IF hr.err # "nil" THEN NextError(hr.err, hr.pos, <<hr.w>>)
    ELSE
      LET fr == parseFormatted(in, hr.pos, hr.h.Length - headerLen) IN
      IF fr.err # "nil" THEN NextError(fr.err, fr.pos, <<hr.w, fr.w>>)
      ELSE
        LET sr == parseStrings(in, fr.pos) IN
        IF sr.err # "nil" THEN NextError(sr.err, sr.pos, <<hr.w, fr.w>>)
        ELSE
          LET ir == interpret(hr.h, fr.fb, sr.ss, ver, oob, big) IN
          IF ir.panic
          THEN [status |-> "panic", err |-> "nil", s |-> <<>>, pos |-> sr.pos,
                w |-> <<hr.w, fr.w>>, shared |-> FALSE]
          ELSE [status |-> "ok", err |-> "nil",
                s |-> <<[Header     |-> hr.h,
                         Formatted  |-> fr.fb,
                         Strings    |-> ir.ss,
                         SystemInfo |-> ir.si]>>,
                pos |-> sr.pos,
                w |-> <<hr.w, fr.w>>, shared |-> fr.shared]

(***************************************************************************)
(* Serialization of a structure table, as the firmware (and the tests'     *)
(* byte tables) lay it out: header, formatted block, string set.           *)
(***************************************************************************)
Rec(type, handle, formatted, strings) ==
    [Type |-> type, Handle |-> handle, Formatted |-> formatted, Strings |-> strings]

RECURSIVE EncodeStringList(_)
EncodeStringList(strings) ==
    IF strings = <<>> THEN <<>>
    ELSE Head(strings) \o <<0>> \o EncodeStringList(Tail(strings))

EncodeStrings(strings) ==
    IF strings = <<>> THEN <<0, 0>> ELSE EncodeStringList(strings) \o <<0>>

EncodeRecord(r) ==
    <<r.Type, Len(r.Formatted) + headerLen, r.Handle % 256, r.Handle \div 256>>
    \o r.Formatted \o EncodeStrings(r.Strings)

RECURSIVE EncodeTable(_)
EncodeTable(rs) ==
    IF rs = <<>> THEN <<>> ELSE EncodeRecord(Head(rs)) \o EncodeTable(Tail(rs))

(***************************************************************************)
(* The inputs.                                                             *)
(***************************************************************************)
StrA == <<97>>
StrBC == <<98, 99>>
StrDeadbeef == <<100, 101, 97, 100, 98, 101, 101, 102>>

StringVectors == {<<>>, <<StrA>>, <<StrA, StrBC>>}

Zeros(n) == [i \in 1..n |-> 0]
Fill(n, b) == [i \in 1..n |-> b]

UUIDExample ==
    <<164, 152, 53, 16, 113, 226, 17, 226, 173, 177, 223, 139, 228, 132, 31, 91>>

UUIDs == {Zeros(16), Fill(16, 255), UUIDExample,
          Zeros(15) \o <<1>>, <<255>> \o Zeros(15), Fill(15, 255) \o <<254>>}

Indices == 0..MaxIdx

\* Type 1 records with a full 20-byte formatted block.
SystemRecords ==
    {Rec(1, 513, <<m, p, 0, sn>> \o u, sv) :
        m \in Indices, p \in Indices, sn \in {0, MaxIdx}, u \in UUIDs,
        sv \in StringVectors}

\* Type 2 records.
BaseboardRecords ==
    {Rec(2, 2, <<m, p, v, sn>>, sv) :
        m \in Indices, p \in {0, 2}, v \in {0, 1}, sn \in Indices,
        sv \in StringVectors}

\* Type 0 records.
BIOSRecords ==
    {Rec(0, 0, <<vendor, version, 0, 224, date>>, sv) :
        vendor \in Indices, version \in {0, 2}, date \in Indices,
        sv \in StringVectors}

\* Type 17 records: a 16-bit size, a 32-bit extended size, and string
\* indices for manufacturer and serial number, cut to n formatted bytes.
MemoryFormatted(size, ext, manufacturer, serial) ==
    <<1, 0, 254, 255, 72, 0, 64, 0, size % 256, size \div 256, 9, 0, 1, 2, 24, 128, 0>>
    \o <<52, 8, manufacturer, serial, 0, 0>> \o <<2>> \o ext \o <<52, 8>>
    \o <<176, 4, 176, 4, 176, 4>>

MemoryRecords ==
    {Rec(17, 17, SubSeq(MemoryFormatted(size, ext, mf, sn), 1, n), sv) :
        size \in {0, 1, 32767, 32769, 65535},
        ext \in {<<0, 0, 0, 0>>, <<0, 128, 0, 0>>, <<255, 255, 255, 255>>},
        mf \in {0, 1}, sn \in {0, MaxIdx}, n \in {17, 23, 30, 36},
        sv \in {<<>>, <<StrA, StrBC>>}}

\* Type 4 records (44 formatted bytes).
ProcessorFormatted(manufacturer, id, coreCount, coreCount2) ==
    <<1, 3, 179, manufacturer>> \o id \o <<0, 0, 100, 0, 160, 15, 184, 11>>
    \o <<65, 1, 5, 0, 6, 0, 7, 0, 0, 0, 0>> \o <<coreCount, 4, 8, 4, 0, 179, 0>>
    \o <<coreCount2 % 256, coreCount2 \div 256, 4, 0, 8, 0>>

ProcessorRecords ==
    {Rec(4, 4, ProcessorFormatted(mf, id, cc, cc2), sv) :
        mf \in Indices,
        id \in {Zeros(8), <<84, 6, 5, 0, 255, 251, 235, 191>>},
        cc \in {0, 4, 255}, cc2 \in {0, 4, 300},
        sv \in StringVectors}

\* Records with a short or empty formatted block, unknown types, and the
\* records of the decoder's own test table.
ShortRecords ==
    {Rec(t, 7, fb, sv) :
        t \in {0, 1, 2, 3, 4, 17, 5, 200},
        fb \in {<<>>, <<1>>, <<131>>, <<0, 0, 0, 0, 0, 0, 0, 0, 0>>},
        sv \in {<<>>, <<StrA>>}}
    \cup {Rec(0, 1, <<255>>, <<>>),
          Rec(1, 2, <<222, 173, 190, 239, 222, 173, 190, 239>>, <<StrDeadbeef>>),
          Rec(1, 1, <<>>, <<>>),
          Rec(1, 3, <<0, 0, 0, 0>> \o UUIDExample, << <<>>, StrA >>)}

EndOfTableRecords ==
    {Rec(127, 1, <<>>, <<>>), Rec(127, 3, <<1, 2>>, <<StrA, StrBC>>)}

\* Records of streams that hold one record in front of the end of table.
BigPool ==
    SystemRecords \cup BaseboardRecords \cup BIOSRecords \cup MemoryRecords
    \cup ProcessorRecords \cup ShortRecords

\* Records of streams that hold several records.
SmallPool ==
    {Rec(0, 1, <<255>>, <<>>),
     Rec(1, 2, <<0, 1, 0, 0>> \o UUIDExample, <<StrDeadbeef>>),
     Rec(1, 1, <<>>, <<>>),
     Rec(5, 5, <<7>>, <<StrA, StrBC>>),
     Rec(17, 6, SubSeq(MemoryFormatted(1, <<0, 0, 0, 0>>, 1, 0), 1, 23), <<StrA>>),
     Rec(17, 7, SubSeq(MemoryFormatted(0, <<0, 0, 0, 0>>, 0, 0), 1, 23), <<>>),
     Rec(127, 3, <<1, 2>>, <<StrA, StrBC>>)}

RECURSIVE SeqsUpTo(_, _)
SeqsUpTo(S, n) ==
    IF n = 0 THEN {<<>>}
    ELSE SeqsUpTo(S, n - 1)
         \cup {Append(q, x) : q \in {r \in SeqsUpTo(S, n - 1) : Len(r) = n - 1}, x \in S}

\* Bytes that follow the serialized records: nothing, or a malformed rest.
Tails ==
    {<<>>, <<255>>, <<0>>, <<0, 0, 0, 0>>, <<0, 255, 0, 0>>,
     <<1, 4, 1, 0, 97, 98, 99, 100>>, <<5, 3, 0, 0, 0, 0>>}

\* Tables of one record from BigPool in front of an end of table.
BigLists == {<<r, Rec(127, 1, <<>>, <<>>)>> : r \in BigPool}

\* Tables of up to MaxRecords records from SmallPool, with or without an
\* end of table behind them.
SmallLists ==
    {q \o e : q \in SeqsUpTo(SmallPool, MaxRecords),
              e \in {<<>>} \cup {<<x>> : x \in EndOfTableRecords}}

RecordLists == BigLists \cup SmallLists

\* The streams made from a table: the table as serialized; for a small
\* table also the table followed by a malformed rest, and, for at most two
\* records, every proper prefix of the serialized table.
Streams(rs) ==
    {EncodeTable(rs)}
    \cup (IF rs \in SmallLists
          THEN {EncodeTable(rs) \o tail : tail \in Tails}
          ELSE {})
    \cup (IF rs \in SmallLists /\ Len(rs) <= 2
          THEN {SubSeq(EncodeTable(rs), 1, cut) : cut \in 0..Len(EncodeTable(rs))}
          ELSE {})

HasProcessor(rs) == \E i \in 1..Len(rs) : rs[i].Type = 4

\* SMBIOSVersion as NewDecoder leaves it: the zero value.
ZeroVersion == [Major |-> 0, Minor |-> 0]

(***************************************************************************)
(* Entry points.  A uint32 or uint64 field is kept as its base-256 digits, *)
(* most significant first (0x7af09000 is <<122, 240, 144, 0>>), so that no *)
(* value leaves the range of the model checker's integers.                 *)
(***************************************************************************)
\* "_SM_", "_SM3_", "_DMI_"
magic32 == <<95, 83, 77, 95>>
magic64 == <<95, 83, 77, 51, 95>>
magicDMI == <<95, 68, 77, 73, 95>>

\* Minimum lengths of the two entry points and the checksum indices.
expLen32 == 31
expLen64 == 24
epChkIndex == 4
chkIndex64 == 5

\* What io.LimitReader(r, 64) lets through.
entryPointReadLimit == 64

\* bytes.HasPrefix(b, prefix)
HasPrefix(b, prefix) ==
    Len(b) >= Len(prefix) /\ SubSeq(b, 1, Len(prefix)) = prefix

\* The read with a slip: the bytes are taken most significant first.
LittleEndianUint32_BigEndian(b) == <<b[1], b[2], b[3], b[4]>>

\* binary.LittleEndian.Uint32 of the four bytes b.
LittleEndianUint32(b) == <<b[4], b[3], b[2], b[1]>>

\* binary.LittleEndian.Uint64 of the eight bytes b.
LittleEndianUint64(b) == <<b[8], b[7], b[6], b[5], b[4], b[3], b[2], b[1]>>

\* binary.LittleEndian.PutUint32 and PutUint64: the bytes written for v.
PutUint32(v) == <<v[4], v[3], v[2], v[1]>>
PutUint64(v) == <<v[8], v[7], v[6], v[5], v[4], v[3], v[2], v[1]>>

\* The loop of checksum: chk += b[i] in uint8 for every index i (0-based)
\* from i on, the index chkIndex skipped.
RECURSIVE checksumLoop(_, _, _, _)
checksumLoop(chk, chkIndex, b, i) ==
    \* chk is a uint8; testing it evaluates the running sum in every round.
    IF i >= Len(b) \/ chk \notin Byte THEN chk
    ELSE checksumLoop(IF i = chkIndex THEN chk ELSE (chk + b[i + 1]) % 256,
                      chkIndex, b, i + 1)

\* The checksum with a slip: the loop starts from 0, so that the checksum
\* byte is left out of the sum.
checksum_StartsFromZero(start, chkIndex, b) ==
    IF checksumLoop(0, chkIndex, b, 0) # 0 THEN "invalid checksum" ELSE "nil"

\* checksum(start, chkIndex, b): the error it returns, "nil" for none.
checksum(start, chkIndex, b) ==
    IF checksumLoop(start, chkIndex, b, 0) # 0 THEN "invalid checksum" ELSE "nil"

\* A failed parse: an error and no entry point.
EntryPointError(e) == [err |-> e, ep |-> <<>>]

\* parse32 with a slip: the intermediate anchor is not looked at.
parse32_NoIntermediateAnchor(b) ==
    IF Len(b) < expLen32 THEN EntryPointError("short entry point")
    ELSE IF Len(b) # b[6] THEN EntryPointError("bad length")
    ELSE IF checksum(b[epChkIndex + 1], epChkIndex, b) # "nil"
    THEN EntryPointError(checksum(b[epChkIndex + 1], epChkIndex, b))
    ELSE [err |-> "nil",
          ep  |-> <<[Kind                  |-> "EntryPoint32Bit",
                     Anchor                |-> Slice(b, 0, 4),
                     Checksum              |-> b[epChkIndex + 1],
                     Length                |-> b[6],
                     Major                 |-> b[7],
                     Minor                 |-> b[8],
                     MaxStructureSize      |-> LittleEndianUint16(b[9], b[10]),
                     EntryPointRevision    |-> b[11],
                     FormattedArea         |-> Slice(b, 10, 15),
                     IntermediateAnchor    |-> Slice(b, 16, 21),
                     IntermediateChecksum  |-> b[22],
                     StructureTableLength  |-> LittleEndianUint16(b[23], b[24]),
                     StructureTableAddress |-> LittleEndianUint32(Slice(b, 24, 28)),
                     NumberStructures      |-> LittleEndianUint16(b[29], b[30]),
                     BCDRevision           |-> b[31]]>>]

parse32(b) ==
    IF Len(b) < expLen32 THEN EntryPointError("short entry point")
    ELSE IF Len(b) # b[6] THEN EntryPointError("bad length")
    ELSE IF Slice(b, 16, 21) # magicDMI THEN EntryPointError("bad DMI magic")
    ELSE IF checksum(b[epChkIndex + 1], epChkIndex, b) # "nil"
    THEN EntryPointError(checksum(b[epChkIndex + 1], epChkIndex, b))
    ELSE [err |-> "nil",
          ep  |-> <<[Kind                  |-> "EntryPoint32Bit",
                     Anchor                |-> Slice(b, 0, 4),
                     Checksum              |-> b[epChkIndex + 1],
                     Length                |-> b[6],
                     Major                 |-> b[7],
                     Minor                 |-> b[8],
                     MaxStructureSize      |-> LittleEndianUint16(b[9], b[10]),
                     EntryPointRevision    |-> b[11],
                     FormattedArea         |-> Slice(b, 10, 15),
                     IntermediateAnchor    |-> Slice(b, 16, 21),
                     IntermediateChecksum  |-> b[22],
                     StructureTableLength  |-> LittleEndianUint16(b[23], b[24]),
                     StructureTableAddress |-> LittleEndianUint32(Slice(b, 24, 28)),
                     NumberStructures      |-> LittleEndianUint16(b[29], b[30]),
                     BCDRevision           |-> b[31]]>>]

parse64(b) ==
    IF Len(b) < expLen64 THEN EntryPointError("short entry point")
    ELSE IF Len(b) # b[7] THEN EntryPointError("bad length")
    ELSE IF checksum(b[chkIndex64 + 1], chkIndex64, b) # "nil"
    THEN EntryPointError(checksum(b[chkIndex64 + 1], chkIndex64, b))
    ELSE [err |-> "nil",
          ep  |-> <<[Kind                  |-> "EntryPoint64Bit",
                     Anchor                |-> Slice(b, 0, 5),
                     Checksum              |-> b[chkIndex64 + 1],
                     Length                |-> b[7],
                     Major                 |-> b[8],
                     Minor                 |-> b[9],
                     Revision              |-> b[10],
                     EntryPointRevision    |-> b[11],
                     Reserved              |-> b[12],
                     StructureTableMaxSize |-> LittleEndianUint32(Slice(b, 12, 16)),
                     StructureTableAddress |-> LittleEndianUint64(Slice(b, 16, 24))]>>]

\* The bytes ioutil.ReadAll(io.LimitReader(r, 64)) returns for a reader
\* that holds the bytes r.
ReadAllLimited(r) ==
    SubSeq(r, 1, IF Len(r) < entryPointReadLimit THEN Len(r) ELSE entryPointReadLimit)

ParseEntryPoint(r) ==
    LET b == ReadAllLimited(r) IN
    IF Len(b) < 4 THEN EntryPointError("too few bytes")
    ELSE IF HasPrefix(b, magic32) THEN parse32(b)
    ELSE IF HasPrefix(b, magic64) THEN parse64(b)
    ELSE EntryPointError("unrecognized magic")

\* EntryPoint32Bit.Version
Version32(h) == <<h.Major, h.Minor, 0>>

\* EntryPoint64Bit.Version with a slip: the revision is reported as 0.
Version64_NoRevision(h) == <<h.Major, h.Minor, 0>>

\* EntryPoint64Bit.Version
Version64(h) == <<h.Major, h.Minor, h.Revision>>

\* EntryPoint32Bit.Table and EntryPoint64Bit.Table: address and size.
Table32(h) == <<h.StructureTableAddress, h.StructureTableLength>>
Table64(h) == <<h.StructureTableAddress, h.StructureTableMaxSize>>

\* The methods of the EntryPoint interface, dispatched on the variant.
EntryPointVersion(e) ==
    IF e.Kind = "EntryPoint32Bit" THEN Version32(e) ELSE Version64(e)
EntryPointTable(e) ==
    IF e.Kind = "EntryPoint32Bit" THEN Table32(e) ELSE Table64(e)

\* marshal64 of the tests: the 24 bytes of a 64-bit entry point.
marshal64(ep) ==
    LET body == <<expLen64, ep.Major, ep.Minor, ep.Revision,
                  ep.EntryPointRevision, ep.Reserved>>
                \o PutUint32(ep.StructureTableMaxSize)
                \o PutUint64(ep.StructureTableAddress)
        b == magic64 \o <<0>> \o body
        chk == checksumLoop(0, chkIndex64, b, 0)
    IN magic64 \o <<(256 - chk) % 256>> \o body

(***************************************************************************)
(* The memory scan.  The io.ReadSeeker is a memory of zeros leading zero   *)
(* bytes followed by bytes; addresses count from 0.                        *)
(***************************************************************************)
paragraph == 16

\* The bytes both anchors start with: "_SM".
magicPrefix == <<95, 83, 77>>

Memory(zeros, bytes) == [zeros |-> zeros, bytes |-> bytes]
SizeOf(rs) == rs.zeros + Len(rs.bytes)
ByteAt(rs, a) == IF a < rs.zeros THEN 0 ELSE rs.bytes[a - rs.zeros + 1]

\* The n bytes at address off; the caller has checked that they exist.
ReadAt(rs, off, n) ==
    LET z == IF off >= rs.zeros THEN 0
             ELSE IF off + n <= rs.zeros THEN n ELSE rs.zeros - off
    IN Zeros(z) \o SubSeq(rs.bytes, off + z - rs.zeros + 1, off + n - rs.zeros)

\* The bytes from address off to the end of the memory.
ReadFrom(rs, off) ==
    IF off >= SizeOf(rs) THEN <<>> ELSE ReadAt(rs, off, SizeOf(rs) - off)

\* io.ReadFull(rs, buf) with len(buf) = n after rs.Seek(off): a buffer of
\* no bytes is filled without a read.
ReadFullAt(rs, off, n) ==
    IF n = 0 \/ off + n <= SizeOf(rs) THEN "nil"
    ELSE IF off >= SizeOf(rs) THEN "EOF" ELSE "ErrUnexpectedEOF"

\* The loop of findEntryPoint; the reader stands at addr in every round.
RECURSIVE findEntryPointLoop(_, _, _)
findEntryPointLoop(rs, addr, end) ==
    IF ~(addr < end)
    THEN [addr |-> 0, err |-> "no SMBIOS entry point found in memory"]
    ELSE IF ReadFullAt(rs, addr, paragraph) # "nil"
    THEN [addr |-> 0, err |-> ReadFullAt(rs, addr, paragraph)]
    ELSE IF HasPrefix(ReadAt(rs, addr, paragraph), magicPrefix)
    THEN [addr |-> addr, err |-> "nil"]
    ELSE findEntryPointLoop(rs, addr + paragraph, end)

\* findEntryPoint with a slip: the end bound is scanned too.
findEntryPoint_InclusiveEnd(rs, start, end) ==
    findEntryPointLoop(rs, start, end + 1)

findEntryPoint(rs, start, end) == findEntryPointLoop(rs, start, end)

\* int(v) of an unsigned value held as base-256 digits.
RECURSIVE IntOf(_)
IntOf(d) ==
    IF d = <<>> THEN 0 ELSE 256 * IntOf(SubSeq(d, 1, Len(d) - 1)) + d[Len(d)]

\* ep.Table() as the two ints memoryStream works with: the 16-bit table
\* length of the 32-bit entry point is held as a number already.
TableAddr(e) == IntOf(EntryPointTable(e)[1])
TableSize(e) ==
    IF e.Kind = "EntryPoint32Bit" THEN EntryPointTable(e)[2]
    ELSE IntOf(EntryPointTable(e)[2])

MemoryStreamError(found, e) ==
    [found |-> found, err |-> e, ep |-> <<>>, out |-> <<>>]

\* memoryStream: found is what findEntryPoint returned, out the bytes of
\* the buffer behind the returned reader, if any.
memoryStream(rs, startAddr, endAddr) ==
    LET found == findEntryPoint(rs, startAddr, endAddr) IN
    IF found.err # "nil" THEN MemoryStreamError(found, found.err)
    ELSE
      LET p == ParseEntryPoint(ReadFrom(rs, found.addr)) IN
      IF p.err # "nil" THEN MemoryStreamError(found, p.err)
      ELSE
        LET tableAddr == TableAddr(p.ep[1])
            tableSize == TableSize(p.ep[1])
        IN
        IF ReadFullAt(rs, tableAddr, tableSize) # "nil"
        THEN MemoryStreamError(found, ReadFullAt(rs, tableAddr, tableSize))
        ELSE [found |-> found, err |-> "nil", ep |-> p.ep,
              out |-> <<ReadAt(rs, tableAddr, tableSize)>>]

(***************************************************************************)
(* The Windows source.  GetSystemFirmwareTable is called twice: r1 of the  *)
(* first call is the size to allocate, r1 of the second the bytes written. *)
(* A uint32 is four base-256 digits, most significant first, so that       *)
(* 8 + tableSize wraps as it does in the code.                             *)
(***************************************************************************)
rawSMBIOSDataHeaderSize == 8

\* uint32(n) for a number n that the model checker can hold.
Uint32(n) ==
    <<(n \div 16777216) % 256, (n \div 65536) % 256, (n \div 256) % 256, n % 256>>

\* x + y and x - y in uint32: the carry out of the top digit is dropped.
U32Add(x, y) ==
    LET d4 == x[4] + y[4]
        d3 == x[3] + y[3] + (d4 \div 256)
        d2 == x[2] + y[2] + (d3 \div 256)
        d1 == x[1] + y[1] + (d2 \div 256)
    IN <<d1 % 256, d2 % 256, d3 % 256, d4 % 256>>
U32Sub(x, y) ==
    LET d4 == 256 + x[4] - y[4]
        d3 == 255 + x[3] - y[3] + (d4 \div 256)
        d2 == 255 + x[2] - y[2] + (d3 \div 256)
        d1 == 255 + x[1] - y[1] + (d2 \div 256)
    IN <<d1 % 256, d2 % 256, d3 % 256, d4 % 256>>

\* x > y in uint32.
U32Greater(x, y) ==
    \E i \in 1..4 : x[i] > y[i] /\ \A j \in 1..(i - 1) : x[j] = y[j]

\* The buffer after the second call: the bytes written, then the zeros of
\* make([]byte, bufferSize).
FilledBuffer(bufferSize, bytesWritten, data) ==
    IF bytesWritten > bufferSize THEN Zeros(bufferSize)
    ELSE SubSeq(data, 1, bytesWritten) \o Zeros(bufferSize - bytesWritten)

WindowsError(e) == [status |-> "error", err |-> e, ep |-> <<>>, out |-> <<>>]
WindowsPanic == [status |-> "panic", err |-> "nil", ep |-> <<>>, out |-> <<>>]

\* Table and Version of WindowsEntryPoint.
TableWindows(e) == <<0, IntOf(e.Size)>>
VersionWindows(e) == <<e.MajorVersion, e.MinorVersion, e.Revision>>

\* The slice with a slip: everything behind the header is the table.
TableBuff_ToEnd(buffer, high) ==
    [panic |-> FALSE, out |-> Slice(buffer, rawSMBIOSDataHeaderSize, Len(buffer))]

\* buffer[rawSMBIOSDataHeaderSize : high] for a uint32 high: a high bound
\* below the low bound or behind the buffer is a run-time panic.
TableBuff(buffer, high) ==
    IF U32Greater(high, Uint32(Len(buffer)))
       \/ U32Greater(Uint32(rawSMBIOSDataHeaderSize), high)
    THEN [panic |-> TRUE, out |-> <<>>]
    ELSE [panic |-> FALSE,
          out |-> Slice(buffer, rawSMBIOSDataHeaderSize, IntOf(high))]

\* The end of stream(), shared by its two versions: entry point and reader.
WindowsResult(buffer, tableSize) ==
    LET t == TableBuff(buffer, U32Add(Uint32(rawSMBIOSDataHeaderSize), tableSize)) IN
    IF t.panic THEN WindowsPanic
    ELSE [status |-> "ok", err |-> "nil",
          ep  |-> <<[Kind         |-> "WindowsEntryPoint",
                     MajorVersion |-> buffer[2],
                     MinorVersion |-> buffer[3],
                     Revision     |-> buffer[4],
                     Size         |-> tableSize]>>,
          out |-> <<t.out>>]

\* stream() of stream_windows.go; r1 and r2 are what the two calls return,
\* data what the second call has to write.
streamWindows(r1, r2, data) ==
    IF r1 = 0 THEN WindowsError("failed to determine size of buffer needed")
    ELSE IF r1 < rawSMBIOSDataHeaderSize
    THEN WindowsError("reported buffer size smaller than expected")
    ELSE
      LET bufferSize == r1
          bytesWritten == r2
          buffer == FilledBuffer(bufferSize, bytesWritten, data)
      IN
      IF bytesWritten > bufferSize THEN WindowsError("buffer size was too small")
      ELSE IF bytesWritten = 0 THEN WindowsError("failed to read SMBIOS data")
      ELSE IF bytesWritten < rawSMBIOSDataHeaderSize
      THEN WindowsError("GetSystemFirmwareTable wrote less data than expected")
      ELSE
        LET tableSize == LittleEndianUint32(Slice(buffer, 4, 8)) IN
        IF U32Greater(U32Add(Uint32(rawSMBIOSDataHeaderSize), tableSize),
                      Uint32(bytesWritten))
        THEN WindowsError("reported SMBIOS table size exceeds buffer")
        ELSE WindowsResult(buffer, tableSize)

\* The earlier stream() that clamps the table size to the buffer.
streamWindowsClamping(r1, r2, data) ==
    IF r1 = 0 THEN WindowsError("failed to determine size of buffer needed")
    ELSE
      LET bufferSize == r1
          buffer == FilledBuffer(bufferSize, r2, data)
      IN
      IF r2 # bufferSize THEN WindowsError("failed to read SMBIOS data")
      ELSE IF Len(buffer) < 8 THEN WindowsPanic
      ELSE
        LET tableSize == LittleEndianUint32(Slice(buffer, 4, 8))
            room == U32Sub(Uint32(bufferSize), Uint32(8))
        IN
        WindowsResult(buffer, IF U32Greater(tableSize, room) THEN room ELSE tableSize)

(***************************************************************************)
(* The Linux and Solaris sources.  fs is the file system stream() finds:   *)
(* what os.Stat of the entry-point file returns, the error of os.Open for  *)
(* each path ("nil" for none), and what the files hold.  A result tells    *)
(* the error, the entry point, the bytes the returned reader will deliver, *)
(* the file handle behind that reader ("buffer" for a reader on a byte     *)
(* slice), the file handles that are open when the function returns, and   *)
(* the source that was used.                                               *)
(***************************************************************************)
sysfsDMI == "/sys/firmware/dmi/tables/DMI"
sysfsEntryPoint == "/sys/firmware/dmi/tables/smbios_entry_point"
devMem == "/dev/mem"
devSMBIOS == "/dev/smbios"

\* startAddr and endAddr of devMemStream: 0x000f0000 and 0x000fffff.
devMemStartAddr == 983040
devMemEndAddr == 1048575

\* os.IsNotExist(err)
IsNotExist(e) == e = "ENOENT"

StreamError(e, open, path) ==
    [err |-> e, ep |-> <<>>, out |-> <<>>, handle |-> "none",
     open |-> open, path |-> path]

\* h.Close() on the set of open handles.
Close(open, h) == open \ {h}

\* sysfsStream: epf is closed by the deferred call on every return.
sysfsStream(fs) ==
    IF fs.openErr[sysfsEntryPoint] # "nil"
    THEN StreamError(fs.openErr[sysfsEntryPoint], {}, "sysfs")
    ELSE
      LET p == ParseEntryPoint(fs.entryPoint) IN
      IF p.err # "nil" THEN StreamError(p.err, Close({sysfsEntryPoint}, sysfsEntryPoint), "sysfs")
      ELSE IF fs.openErr[sysfsDMI] # "nil"
      THEN StreamError(fs.openErr[sysfsDMI],
                       Close({sysfsEntryPoint}, sysfsEntryPoint), "sysfs")
      ELSE [err |-> "nil", ep |-> p.ep, out |-> <<fs.dmi>>, handle |-> sysfsDMI,
            open |-> Close({sysfsEntryPoint, sysfsDMI}, sysfsEntryPoint),
            path |-> "sysfs"]

\* devMemStream: mem is closed by the deferred call on every return.
devMemStream(fs) ==
    IF fs.openErr[devMem] # "nil"
    THEN StreamError(fs.openErr[devMem], {}, "devmem")
    ELSE
      LET r == memoryStream(fs.mem, devMemStartAddr, devMemEndAddr) IN
      [err |-> r.err, ep |-> r.ep, out |-> r.out,
       handle |-> IF r.err = "nil" THEN "buffer" ELSE "none",
       open |-> Close({devMem}, devMem), path |-> "devmem"]

\* stream() of Linux with the /dev/mem fallback.
streamLinux(fs) ==
    IF fs.stat = "nil" THEN sysfsStream(fs)
    ELSE IF IsNotExist(fs.stat) THEN devMemStream(fs)
    ELSE StreamError(fs.stat, {}, "none")

\* stream() of stream_linux.go, which knows the sysfs files only.
streamLinuxSysfs(fs) ==
    IF fs.stat = "nil" THEN sysfsStream(fs)
    ELSE IF IsNotExist(fs.stat)
    THEN StreamError("reading from /dev/mem not yet supported on Linux", {}, "none")
    ELSE StreamError(fs.stat, {}, "none")

\* What is left to read from a handle after ParseEntryPoint has read from it.
RestAfterEntryPoint(file) ==
    SubSeq(file, Len(ReadAllLimited(file)) + 1, Len(file))

\* stream() of Solaris: the handle that was parsed from is the stream.
streamSolaris(fs) ==
    IF fs.openErr[devSMBIOS] # "nil"
    THEN StreamError(fs.openErr[devSMBIOS], {}, "smbios")
    ELSE
      LET p == ParseEntryPoint(fs.smbios) IN
      IF p.err # "nil" THEN StreamError(p.err, {devSMBIOS}, "smbios")
      ELSE [err |-> "nil", ep |-> p.ep,
            out |-> <<RestAfterEntryPoint(fs.smbios)>>,
            handle |-> devSMBIOS, open |-> {devSMBIOS}, path |-> "smbios"]

\* Stream: an error of stream() is passed on, a stream is wrapped.
Stream(r) == IF r.err # "nil" THEN StreamError(r.err, r.open, r.path) ELSE r

(***************************************************************************)
(* Inputs of ParseEntryPoint.                                              *)
(***************************************************************************)
\* The entry points of TestParseEntryPoint "32, OK" and "64, OK".
Example32 ==
    magic32 \o <<164, 31, 2, 8, 212, 1, 0, 0, 0, 0, 0, 0>> \o magicDMI
    \o <<149, 95, 15, 0, 144, 240, 122, 67, 0, 40>>

Example64 ==
    magic64 \o <<134, 24, 3, 0, 0, 1, 0, 83, 9, 0, 0, 176, 179, 14, 0, 0, 0, 0, 0>>

\* b with the byte at 0-based index i replaced by c.
WithByte(b, i, c) == [b EXCEPT ![i + 1] = c]

RECURSIVE SumBytes(_)
SumBytes(b) == IF b = <<>> THEN 0 ELSE b[1] + SumBytes(Tail(b))

\* b with the byte at 0-based index i set so that the bytes of b sum to 0
\* modulo 256.
Sealed(b, i) ==
    WithByte(b, i, (256 - (SumBytes(WithByte(b, i, 0)) % 256)) % 256)

\* The 64-bit entry points that are serialized by marshal64.
EntryPoint64Values ==
    [Major                 : {3, 255},
     Minor                 : {0, 1},
     Revision              : {0, 255},
     EntryPointRevision    : {1},
     Reserved              : {0},
     StructureTableMaxSize : {<<0, 0, 2, 0>>, <<255, 255, 255, 254>>},
     StructureTableAddress : {<<0, 0, 0, 0, 0, 0, 0, 240>>,
                              <<255, 1, 2, 3, 4, 5, 6, 7>>}]

\* 32-bit entry points that differ from the example in version, table
\* length and table address, with every value of the checksum byte.
EntryPoint32Inputs ==
    {WithByte(Example32, epChkIndex, c) : c \in Byte}
    \cup {Sealed(SubSeq(Example32, 1, 6) \o <<major, minor>>
                 \o SubSeq(Example32, 9, 22) \o <<len, 0>> \o addr
                 \o SubSeq(Example32, 29, 31), epChkIndex) :
            major \in {2, 3}, minor \in {0, 255}, len \in {0, 95},
            addr \in {<<0, 0, 0, 0>>, <<1, 2, 3, 255>>}}

\* The bytes that may follow an entry point in its source.
RECURSIVE Trailers(_)
Trailers(n) ==
    IF n = 0 THEN {<<>>}
    ELSE Trailers(n - 1)
         \cup {Append(t, x) : t \in {u \in Trailers(n - 1) : Len(u) = n - 1},
                              x \in {0, 255}}

\* Valid entry points followed by up to MaxTrailing further bytes, or by
\* enough zero bytes to pass the read limit.
TrailingInputs ==
    {e \o t : e \in {Example32, Example64}, t \in Trailers(MaxTrailing) \ {<<>>}}
    \cup {e \o Zeros(n) : e \in {Example32, Example64}, n \in {40, 41, 100}}

\* Entry points whose length field covers bytes behind the fixed fields:
\* the "trailing data" cases of TestParseEntryPoint, and records that reach
\* or pass the read limit.
LongInputs ==
    {Sealed(WithByte(Example32 \o <<255>>, 5, 32), epChkIndex),
     Sealed(WithByte(Example64 \o <<255>>, 6, 25), chkIndex64)}
    \cup {Sealed(WithByte(Example32 \o Zeros(n - 31), 5, n), epChkIndex) : n \in {64, 65}}
    \cup {Sealed(WithByte(Example64 \o Zeros(n - 24), 6, n), chkIndex64) : n \in {64, 65}}
    \cup {Sealed(WithByte(Example64 \o Zeros(40), 6, 64), chkIndex64) \o <<7>>}

\* Malformed inputs: every proper prefix of the examples, wrong length
\* fields, a wrong intermediate anchor, and unknown anchors.
MalformedInputs ==
    {SubSeq(e, 1, n) : e \in {Example32}, n \in 0..30}
    \cup {SubSeq(e, 1, n) : e \in {Example64}, n \in 0..23}
    \cup {Sealed(WithByte(Example32, 5, l), epChkIndex) : l \in {0, 30, 32, 255}}
    \cup {Sealed(WithByte(Example64, 6, l), chkIndex64) : l \in {0, 23, 25, 255}}
    \cup {Sealed(WithByte(Example32, 16 + k, 70), epChkIndex) : k \in 0..4}
    \cup {<<0>>, <<255, 255, 255, 255>>, <<95, 83, 77, 51>>,
          <<95, 83, 77, 51, 0>> \o SubSeq(Example64, 6, 24),
          <<95, 68, 77, 73, 95>> \o SubSeq(Example64, 6, 24),
          Example64 \o Example32,
          Zeros(24), Fill(31, 255)}

\* An input together with the 64-bit value it was serialized from, if any.
EntryPointCases ==
    {[input |-> WithByte(marshal64(v), chkIndex64, c), want |-> <<v>>] :
        v \in EntryPoint64Values, c \in Byte}
    \cup {[input |-> b, want |-> <<>>] :
            b \in EntryPoint32Inputs \cup TrailingInputs \cup LongInputs
                  \cup MalformedInputs}

\* The entry points a platform's stream function hands to Stream.
StreamEntryPoints == {Example32, Example64}

HasBIOS(rs) == \E i \in 1..Len(rs) : rs[i].Type = 0

(***************************************************************************)
(* Memory images for the scan.                                             *)
(***************************************************************************)
\* copy(m[o:], s)
Place(m, o, s) ==
    IF o >= Len(m) THEN m
    ELSE SubSeq(m, 1, o)
         \o SubSeq(s, 1, IF Len(s) <= Len(m) - o THEN Len(s) ELSE Len(m) - o)
         \o SubSeq(m, o + Len(s) + 1, Len(m))

\* Whole and half paragraphs.
ScanLengths ==
    {paragraph * k : k \in 0..MaxParagraphs}
    \cup {paragraph * k + 8 : k \in 0..(MaxParagraphs - 1)}
ScanOffsets == {8 * k : k \in 0..(2 * MaxParagraphs - 1)}

\* "_SM_", "_SM3_", "_SM" before another byte, and "_S" alone.
Signatures == {magic32, magic64, magicPrefix \o <<0>>, <<95, 83>>}

\* Zeroed memory with one signature, or with both anchors, at offsets on
\* and off the paragraph boundaries.
ScanImages ==
    {Place(Zeros(n), o, sig) : n \in ScanLengths, o \in ScanOffsets,
                               sig \in Signatures}
    \cup {Place(Place(Zeros(paragraph * MaxParagraphs), o1, magic32), o2, magic64) :
            o1 \in ScanOffsets, o2 \in ScanOffsets}
ScanStarts == {0, 8, 16, 32}
ScanEnds == {paragraph * k : k \in 0..(MaxParagraphs + 1)} \cup {17}

\* Entry points whose table is at addr and has size bytes.
EntryPoint64With(address, size) ==
    marshal64([Major |-> 3, Minor |-> 0, Revision |-> 0,
               EntryPointRevision |-> 1, Reserved |-> 0,
               StructureTableMaxSize |-> <<0, 0, 0, size>>,
               StructureTableAddress |-> address])
EntryPoint64At(addr, size) ==
    EntryPoint64With(<<0, 0, 0, 0, 0, 0, 0, addr>>, size)
EntryPoint32At(addr, size) ==
    Sealed(SubSeq(Example32, 1, 22) \o <<size, 0>> \o <<addr, 0, 0, 0>>
           \o SubSeq(Example32, 29, 31), epChkIndex)
\* A 64-bit entry point whose length field covers 64 bytes.
EntryPoint64LongAt(addr, size) ==
    Sealed(WithByte(EntryPoint64At(addr, size) \o Zeros(40), 6, 64), chkIndex64)

\* A structure table: one end-of-table record with a string.
TableExample == <<127, 4, 9, 1, 97, 0, 0>>

\* Memory as Test_memoryStream "64, OK" lays it out, in small: the entry
\* point at the second paragraph, the table behind it at address 48.
TableBehindImages ==
    {Zeros(16) \o Place(Zeros(32), 0, e) \o TableExample \o Zeros(n) :
        e \in {EntryPoint64At(48, size) : size \in {0, 7, 30}}
              \cup {EntryPoint32At(48, size) : size \in {0, 7, 30}},
        n \in {0, 9}}
\* The table in the first paragraph and the entry point at the very end.
TableInFrontImages ==
    {Place(Zeros(16), 0, TableExample) \o e :
        e \in {EntryPoint64At(addr, size) : addr \in {0, 3, 200}, size \in {0, 7, 50}}
              \cup {EntryPoint32At(addr, size) : addr \in {0, 200}, size \in {7, 50}}}
\* An entry point of 64 bytes, all that ParseEntryPoint reads.
LongEntryPointImages ==
    {Zeros(16) \o EntryPoint64LongAt(80, size) \o TableExample \o Zeros(n) :
        size \in {0, 7, 8}, n \in {0, 1}}
\* Entry points that do not parse: a wrong checksum, a cut record.
BadEntryPointImages ==
    {Zeros(16) \o WithByte(EntryPoint64At(0, 7), chkIndex64, 0),
     Zeros(16) \o SubSeq(EntryPoint64At(0, 7), 1, 20),
     Place(Zeros(16), 0, TableExample) \o SubSeq(EntryPoint32At(0, 7), 1, 30)}

EntryPointImages ==
    TableBehindImages \cup TableInFrontImages \cup LongEntryPointImages
    \cup BadEntryPointImages

\* A call of memoryStream: the memory and the two bounds.
MemoryCases ==
    {[rs |-> Memory(0, m), start |-> st, end |-> en] :
        m \in ScanImages, st \in ScanStarts, en \in ScanEnds}
    \cup {[rs |-> Memory(0, m), start |-> st, end |-> en] :
            m \in EntryPointImages, st \in {0, 16, 32}, en \in {16, 32, 64}}

(***************************************************************************)
(* What the Windows firmware call reports and writes.                      *)
(***************************************************************************)
\* makeRawSMBIOSData with the length field given as its four bytes.
RawSMBIOSData(major, minor, revision, length, table) ==
    <<0, major, minor, revision>> \o length \o table

\* Table data: 1, 2, 3, ...
TableData(n) == SubSeq(<<1, 2, 3, 4, 5, 6, 7, 8, 9, 10, 11, 12, 13, 14, 15, 16>>, 1, n)

\* Length fields: the table bytes present, fewer, more, and the values
\* near the top of uint32.
TableLengths(n) ==
    {PutUint32(Uint32(k)) : k \in {0, n, n + 1} \cup (IF n > 0 THEN {n - 1} ELSE {})}
    \cup {<<0, 1, 0, 0>>, <<0, 0, 1, 0>>, <<0, 0, 0, 128>>,
          <<247, 255, 255, 255>>, <<248, 255, 255, 255>>, <<255, 255, 255, 255>>}

WindowsData ==
    UNION {{RawSMBIOSData(3, minor, 1, length, TableData(n)) :
               minor \in {0, 2}, length \in TableLengths(n)} :
           n \in 0..MaxTableData}
    \cup {SubSeq(RawSMBIOSData(3, 2, 1, PutUint32(Uint32(0)), <<>>), 1, n) : n \in 0..7}

\* The two results r1 for the data d: the usual case, a larger buffer than
\* is written, a failing first or second call, and a buffer too small.
WindowsCalls(d) ==
    {<<Len(d), Len(d)>>, <<Len(d) + 2, Len(d)>>, <<0, 0>>, <<Len(d), 0>>,
     <<Len(d), Len(d) + 1>>}

\* build tells which of the two versions of stream() is compiled in.
WindowsCases ==
    UNION {{[data |-> d, r1 |-> c[1], r2 |-> c[2], build |-> v] :
               c \in WindowsCalls(d), v \in {"checked", "clamping"}} :
           d \in WindowsData}

(***************************************************************************)
(* File systems for the Linux and Solaris sources.                         *)
(***************************************************************************)
\* What /dev/mem holds from 0x000f0000 on: nothing, zeros, an entry point
\* with memory behind it, a 64-byte entry point and its table at 0x000f0040,
\* and an entry point at the very end whose table, at 0x000f0000, is in
\* front of it.
DevMemImages ==
    {Memory(devMemStartAddr, m) :
        m \in {<<>>, Zeros(32),
               EntryPoint64With(<<0, 0, 0, 0, 0, 15, 0, 32>>, 7) \o Zeros(8) \o TableExample,
               Sealed(WithByte(EntryPoint64With(<<0, 0, 0, 0, 0, 15, 0, 64>>, 7)
                               \o Zeros(40), 6, 64), chkIndex64) \o TableExample,
               Place(Zeros(16), 0, TableExample)
               \o EntryPoint64With(<<0, 0, 0, 0, 0, 15, 0, 0>>, 7)}}

\* The sysfs entry-point file: the two examples, one with a byte behind
\* it, and one without an anchor.
EntryPointFiles == {Example32, Example64, Example64 \o <<0>>, <<0, 0, 0, 0>>}

\* /dev/smbios: an entry point and the table right behind it, an entry
\* point alone, and a file without an anchor.
SmbiosFiles ==
    {e \o t : e \in {Example32, Example64,
                       Sealed(WithByte(Example64 \o Zeros(40), 6, 64), chkIndex64),
                       Sealed(WithByte(Example32 \o Zeros(33), 5, 64), epChkIndex)},
              t \in {<<>>, TableExample, TableExample \o TableExample}}
    \cup {<<>>, Zeros(8)}

OpenErrors == [{sysfsEntryPoint, sysfsDMI, devMem, devSMBIOS} -> {"nil", "EACCES"}]

\* A build and the file system it runs on.
StreamCases ==
    {[build |-> bl,
      fs |-> [stat |-> st, openErr |-> oe, entryPoint |-> e, dmi |-> TableExample,
              mem |-> m, smbios |-> <<>>]] :
        bl \in {"linux", "linuxSysfs"}, st \in {"nil", "ENOENT", "EACCES"},
        oe \in {o \in OpenErrors : o[devSMBIOS] = "nil"},
        e \in EntryPointFiles, m \in DevMemImages}
    \cup {[build |-> "solaris",
           fs |-> [stat |-> "nil", openErr |-> oe, entryPoint |-> <<>>,
                   dmi |-> <<>>, mem |-> Memory(0, <<>>), smbios |-> f]] :
            oe \in {o \in OpenErrors : \A q \in DOMAIN o : q # devSMBIOS => o[q] = "nil"},
            f \in SmbiosFiles}

(***************************************************************************)
(* State.                                                                  *)
(***************************************************************************)
VARIABLES
    records,    \* the records serialized into the stream
    stream,     \* the bytes behind the Decoder's bufio.Reader
    Version,    \* Decoder.Version
    bigEndian,  \* TRUE on a build whose native byte order is big-endian
    pos,        \* number of bytes consumed from the stream
    ss,         \* Decode's local slice of structures
    pc,         \* "decoding", "returned" or "panicked"
    result,     \* the slice Decode returned
    err,        \* the error Decode returned, "nil" for none
    db,         \* Decoder.b: the bytes at its front that a read has stored
    sharesBuf,  \* the indices of ss whose Formatted is a slice of Decoder.b
    epInput,    \* the bytes behind the reader given to ParseEntryPoint
    epWant,     \* the 64-bit entry point epInput was serialized from, if any
    epPc,       \* "call" before ParseEntryPoint runs, "returned" after
    epOut,      \* the entry point ParseEntryPoint returned, if any
    epErr,      \* the error ParseEntryPoint returned, "nil" for none
    memory,     \* the memory behind the io.ReadSeeker given to memoryStream
    image,      \* the memory as it was when memoryStream was called
    startAddr,  \* memoryStream's startAddr
    endAddr,    \* memoryStream's endAddr
    msPc,       \* "call", "returned", or "changed" once the memory changed
    msFound,    \* what findEntryPoint returned: address and error
    msEp,       \* the entry point memoryStream returned, if any
    msOut,      \* the bytes behind the reader memoryStream returned, if any
    msErr,      \* the error memoryStream returned, "nil" for none
    winData,    \* the RawSMBIOSData bytes the firmware call has to write
    winR1,      \* r1 of the first GetSystemFirmwareTable call
    winR2,      \* r1 of the second call
    winBuild,   \* "checked" or "clamping": the version of stream() built
    winPc,      \* "call", "returned" or "panicked"
    winEp,      \* the entry point stream() returned, if any
    winOut,     \* the bytes behind the reader stream() returned, if any
    winErr,     \* the error stream() returned, "nil" for none
    build,      \* "linux", "linuxSysfs" or "solaris": the stream() built
    fs,         \* the file system stream() runs on
    stPc,       \* "call" before Stream runs, "returned" after
    stRes       \* what Stream returned, with the handles left open

decoderVars ==
    <<records, stream, Version, bigEndian, pos, ss, pc, result, err,
      db, sharesBuf>>
entryPointVars == <<epInput, epWant, epPc, epOut, epErr>>
memoryVars ==
    <<memory, image, startAddr, endAddr, msPc, msFound, msEp, msOut, msErr>>
windowsVars ==
    <<winData, winR1, winR2, winBuild, winPc, winEp, winOut, winErr>>
streamVars == <<build, fs, stPc, stRes>>
sourceVars == <<memoryVars, windowsVars, streamVars>>
vars == <<decoderVars, entryPointVars, sourceVars>>

\* No memoryStream call is under way.
MemoryIdle ==
    /\ memory = Memory(0, <<>>)
    /\ image = Memory(0, <<>>)
    /\ startAddr = 0
    /\ endAddr = 0
    /\ msPc = "idle"
    /\ msFound = [addr |-> 0, err |-> "nil"]
    /\ msEp = <<>>
    /\ msOut = <<>>
    /\ msErr = "nil"

\* No Windows stream() call is under way.
WindowsIdle ==
    /\ winData = <<>>
    /\ winR1 = 0
    /\ winR2 = 0
    /\ winBuild = "checked"
    /\ winPc = "idle"
    /\ winEp = <<>>
    /\ winOut = <<>>
    /\ winErr = "nil"

\* No Stream call is under way.
StreamIdle ==
    /\ build = "linux"
    /\ fs = [stat |-> "nil", openErr |-> [q \in {} |-> "nil"],
             entryPoint |-> <<>>, dmi |-> <<>>, mem |-> Memory(0, <<>>),
             smbios |-> <<>>]
    /\ stPc = "idle"
    /\ stRes = StreamError("nil", {}, "none")

SourcesIdle == MemoryIdle /\ WindowsIdle /\ StreamIdle

\* No Decode call is under way.
DecoderIdle ==
    /\ records = <<>>
    /\ stream = <<>>
    /\ Version = ZeroVersion
    /\ bigEndian = FALSE
    /\ pos = 0
    /\ ss = <<>>
    /\ pc = "idle"
    /\ result = <<>>
    /\ err = "nil"
    /\ db = <<>>
    /\ sharesBuf = {}

\* No ParseEntryPoint call is under way.
EntryPointIdle ==
    /\ epInput = <<>>
    /\ epWant = <<>>
    /\ epPc = "idle"
    /\ epOut = <<>>
    /\ epErr = "nil"

OOBBytes == {0, 255} \cup 1..MaxOOB

Init ==
    /\ records \in RecordLists
    /\ stream \in Streams(records)
    /\ Version = ZeroVersion
    /\ bigEndian \in (IF HasProcessor(records) THEN BOOLEAN ELSE {FALSE})
    /\ pos = 0
    /\ ss = <<>>
    /\ pc = "decoding"
    /\ result = <<>>
    /\ err = "nil"
    /\ db = <<>>
    /\ sharesBuf = {}
    /\ epInput \in (IF HasBIOS(records) THEN StreamEntryPoints ELSE {Example32})
    /\ epWant = <<>>
    /\ epPc = "returned"
    /\ epOut = ParseEntryPoint(epInput).ep
    /\ epErr = ParseEntryPoint(epInput).err
    /\ SourcesIdle

(***************************************************************************)
(* Decoder.Decode: one iteration of its loop per step.                     *)
(***************************************************************************)
\* The end-of-table test with a slip: every type from 127 up ends the loop.
IsEndOfTable_FromType127Up(s) == s.Header.Type >= typeEndOfTable

IsEndOfTable(s) == s.Header.Type = typeEndOfTable

\* The error return with a slip: the structures decoded so far are returned.
DecodeErrorResult_Partial(structures) == structures

\* What Decode returns next to a non-nil error.
DecodeErrorResult(structures) == <<>>

\* A read into d.b[:Len(data)]: the bytes behind it stay as they were.
WriteBuffer(buf, data) == data \o SubSeq(buf, Len(data) + 1, Len(buf))

\* d.b after one call of next, whose reads are applied in order.
BufferAfter(buf, w) ==
    IF Len(w) = 1 THEN WriteBuffer(buf, w[1])
    ELSE WriteBuffer(WriteBuffer(buf, w[1]), w[2])

\* The structures as a reader of the slice sees them once d.b holds buf:
\* a Formatted that is a slice of d.b shows what d.b holds now.
Structures(structures, shared, buf) ==
    [i \in 1..Len(structures) |->
        IF i \in shared
        THEN [structures[i] EXCEPT
                 !.Formatted = SubSeq(buf, 1, Len(structures[i].Formatted))]
        ELSE structures[i]]

\* What one call of next does to the Decoder's buffer and its sharers.
BufferStep(r) ==
    /\ db' = BufferAfter(db, r.w)
    /\ sharesBuf' = IF r.shared THEN sharesBuf \cup {Len(ss) + 1} ELSE sharesBuf

\* next returned a structure that is not the end of table: append, loop.
DecodeAppend ==
    /\ pc = "decoding"
    /\ \E oob \in OOBBytes :
         LET r == next(stream, pos, Version, oob, bigEndian) IN
         /\ r.status = "ok"
         /\ ~IsEndOfTable(r.s[1])
         /\ BufferStep(r)
         /\ ss' = Append(Structures(ss, sharesBuf, db'), r.s[1])
         /\ pos' = r.pos
    /\ UNCHANGED <<records, stream, Version, bigEndian, pc, result, err>>
    /\ UNCHANGED <<entryPointVars, sourceVars>>

\* next returned the end-of-table structure: append, break, return.
DecodeEndOfTable ==
    /\ pc = "decoding"
    /\ \E oob \in OOBBytes :
         LET r == next(stream, pos, Version, oob, bigEndian) IN
         /\ r.status = "ok"
         /\ IsEndOfTable(r.s[1])
         /\ BufferStep(r)
         /\ ss' = Append(Structures(ss, sharesBuf, db'), r.s[1])
         /\ result' = ss'
         /\ pos' = r.pos
    /\ err' = "nil"
    /\ pc' = "returned"
    /\ UNCHANGED <<records, stream, Version, bigEndian>>
    /\ UNCHANGED <<entryPointVars, sourceVars>>

\* next returned an error: Decode returns it.
DecodeError ==
    /\ pc = "decoding"
    /\ \E oob \in OOBBytes :
         LET r == next(stream, pos, Version, oob, bigEndian) IN
         /\ r.status = "error"
         /\ BufferStep(r)
         /\ err' = r.err
         /\ pos' = r.pos
    /\ ss' = Structures(ss, sharesBuf, db')
    /\ result' = DecodeErrorResult(ss')
    /\ pc' = "returned"
    /\ UNCHANGED <<records, stream, Version, bigEndian>>
    /\ UNCHANGED <<entryPointVars, sourceVars>>

\* next panicked (index out of range): Decode does not return.
DecodePanic ==
    /\ pc = "decoding"
    /\ \E oob \in OOBBytes :
         LET r == next(stream, pos, Version, oob, bigEndian) IN
         /\ r.status = "panic"
         /\ BufferStep(r)
         /\ pos' = r.pos
    /\ ss' = Structures(ss, sharesBuf, db')
    /\ pc' = "panicked"
    /\ UNCHANGED <<records, stream, Version, bigEndian, result, err>>
    /\ UNCHANGED <<entryPointVars, sourceVars>>

Next == DecodeAppend \/ DecodeEndOfTable \/ DecodeError \/ DecodePanic

Spec == Init /\ [][Next]_vars

(***************************************************************************)
(* ParseEntryPoint: one call on a reader that holds epInput.  The decoder  *)
(* takes no part.                                                          *)
(***************************************************************************)
InitEntryPoint ==
    /\ \E c \in EntryPointCases : epInput = c.input /\ epWant = c.want
    /\ epPc = "call"
    /\ epOut = <<>>
    /\ epErr = "nil"
    /\ DecoderIdle
    /\ SourcesIdle

\* What every call assigns: the results of ParseEntryPoint.
ParseEntryPointReturns ==
    /\ epOut' = ParseEntryPoint(epInput).ep
    /\ epErr' = ParseEntryPoint(epInput).err
    /\ epPc' = "returned"
    /\ UNCHANGED <<epInput, epWant>>
    /\ UNCHANGED <<decoderVars, sourceVars>>

\* Fewer than four bytes, or no known anchor: an error.
ParseEntryPointNoMagic ==
    /\ epPc = "call"
    /\ LET b == ReadAllLimited(epInput) IN
         \/ Len(b) < 4
         \/ ~HasPrefix(b, magic32) /\ ~HasPrefix(b, magic64)
    /\ ParseEntryPointReturns

\* The input starts with "_SM_": parse32 decides.
ParseEntryPoint32 ==
    /\ epPc = "call"
    /\ HasPrefix(ReadAllLimited(epInput), magic32)
    /\ ParseEntryPointReturns

\* The input starts with "_SM3_": parse64 decides.
ParseEntryPoint64 ==
    /\ epPc = "call"
    /\ ~HasPrefix(ReadAllLimited(epInput), magic32)
    /\ HasPrefix(ReadAllLimited(epInput), magic64)
    /\ ParseEntryPointReturns

NextEntryPoint ==
    ParseEntryPointNoMagic \/ ParseEntryPoint32 \/ ParseEntryPoint64

SpecEntryPoint == InitEntryPoint /\ [][NextEntryPoint]_vars

(***************************************************************************)
(* memoryStream: one call on a memory, and a later change of the memory    *)
(* that was read.                                                          *)
(***************************************************************************)
InitMemory ==
    /\ \E c \in MemoryCases :
         /\ memory = c.rs
         /\ image = c.rs
         /\ startAddr = c.start
         /\ endAddr = c.end
    /\ msPc = "call"
    /\ msFound = [addr |-> 0, err |-> "nil"]
    /\ msEp = <<>>
    /\ msOut = <<>>
    /\ msErr = "nil"
    /\ DecoderIdle
    /\ EntryPointIdle
    /\ WindowsIdle
    /\ StreamIdle

\* What every call assigns: the results of memoryStream.
MemoryStreamReturns ==
    LET r == memoryStream(memory, startAddr, endAddr) IN
    /\ msFound' = r.found
    /\ msEp' = r.ep
    /\ msOut' = r.out
    /\ msErr' = r.err
    /\ msPc' = "returned"
    /\ UNCHANGED <<memory, image, startAddr, endAddr>>
    /\ UNCHANGED <<decoderVars, entryPointVars, windowsVars, streamVars>>

\* findEntryPoint fails: no paragraph matches, or a read fails.
MemoryStreamNotFound ==
    /\ msPc = "call"
    /\ findEntryPoint(memory, startAddr, endAddr).err # "nil"
    /\ MemoryStreamReturns

\* An anchor is found and ParseEntryPoint rejects what is read there.
MemoryStreamBadEntryPoint ==
    /\ msPc = "call"
    /\ LET found == findEntryPoint(memory, startAddr, endAddr) IN
         /\ found.err = "nil"
         /\ ParseEntryPoint(ReadFrom(memory, found.addr)).err # "nil"
    /\ MemoryStreamReturns

\* The entry point parses and the table cannot be read in full.
MemoryStreamShortTable ==
    /\ msPc = "call"
    /\ LET found == findEntryPoint(memory, startAddr, endAddr) IN
         /\ found.err = "nil"
         /\ ParseEntryPoint(ReadFrom(memory, found.addr)).err = "nil"
    /\ memoryStream(memory, startAddr, endAddr).err # "nil"
    /\ MemoryStreamReturns

\* The table is read: a reader on the buffer is returned.
MemoryStreamOK ==
    /\ msPc = "call"
    /\ memoryStream(memory, startAddr, endAddr).err = "nil"
    /\ MemoryStreamReturns

\* After the return the memory that was read changes: the first byte of
\* the table gets another value.  The buffer behind the returned reader
\* is storage of its own.
MemoryChanges ==
    /\ msPc = "returned"
    /\ msEp # <<>>
    /\ LET a == TableAddr(msEp[1]) IN
         /\ a >= memory.zeros
         /\ a < SizeOf(memory)
         /\ memory' = [memory EXCEPT
                          !.bytes[a - memory.zeros + 1] = (@ + 1) % 256]
    /\ msPc' = "changed"
    /\ UNCHANGED <<image, startAddr, endAddr, msFound, msEp, msOut, msErr>>
    /\ UNCHANGED <<decoderVars, entryPointVars, windowsVars, streamVars>>

NextMemory ==
    \/ MemoryStreamNotFound
    \/ MemoryStreamBadEntryPoint
    \/ MemoryStreamShortTable
    \/ MemoryStreamOK
    \/ MemoryChanges

SpecMemory == InitMemory /\ [][NextMemory]_vars

(***************************************************************************)
(* The Windows stream(): one call, with the firmware call as its input.    *)
(***************************************************************************)
InitWindows ==
    /\ \E c \in WindowsCases :
         /\ winData = c.data
         /\ winR1 = c.r1
         /\ winR2 = c.r2
         /\ winBuild = c.build
    /\ winPc = "call"
    /\ winEp = <<>>
    /\ winOut = <<>>
    /\ winErr = "nil"
    /\ DecoderIdle
    /\ EntryPointIdle
    /\ MemoryIdle
    /\ StreamIdle

\* The outcome of the version of stream() that is built.
WindowsStream ==
    IF winBuild = "checked" THEN streamWindows(winR1, winR2, winData)
    ELSE streamWindowsClamping(winR1, winR2, winData)

\* What every call that returns assigns.
WindowsStreamReturns ==
    /\ winEp' = WindowsStream.ep
    /\ winOut' = WindowsStream.out
    /\ winErr' = WindowsStream.err
    /\ winPc' = "returned"
    /\ UNCHANGED <<winData, winR1, winR2, winBuild>>
    /\ UNCHANGED <<decoderVars, entryPointVars, memoryVars, streamVars>>

\* The first call fails or reports fewer than 8 bytes.
WindowsStreamNoSize ==
    /\ winPc = "call"
    /\ WindowsStream.status = "error"
    /\ winR1 < rawSMBIOSDataHeaderSize
    /\ WindowsStreamReturns

\* The second call fails, or writes more or less than stream() accepts.
WindowsStreamNotRead ==
    /\ winPc = "call"
    /\ WindowsStream.status = "error"
    /\ winR1 >= rawSMBIOSDataHeaderSize
    /\ WindowsStream.err # "reported SMBIOS table size exceeds buffer"
    /\ WindowsStreamReturns

\* The table length of the header is larger than what was written.
WindowsStreamTableTooLarge ==
    /\ winPc = "call"
    /\ WindowsStream.err = "reported SMBIOS table size exceeds buffer"
    /\ WindowsStreamReturns

\* Entry point and reader are returned.
WindowsStreamOK ==
    /\ winPc = "call"
    /\ WindowsStream.status = "ok"
    /\ WindowsStreamReturns

\* An index or a slice bound is out of range: stream() does not return.
WindowsStreamPanic ==
    /\ winPc = "call"
    /\ WindowsStream.status = "panic"
    /\ winPc' = "panicked"
    /\ UNCHANGED <<winData, winR1, winR2, winBuild, winEp, winOut, winErr>>
    /\ UNCHANGED <<decoderVars, entryPointVars, memoryVars, streamVars>>

NextWindows ==
    \/ WindowsStreamNoSize
    \/ WindowsStreamNotRead
    \/ WindowsStreamTableTooLarge
    \/ WindowsStreamOK
    \/ WindowsStreamPanic

SpecWindows == InitWindows /\ [][NextWindows]_vars

(***************************************************************************)
(* Stream on Linux and Solaris: one call on a file system.                 *)
(***************************************************************************)
InitStream ==
    /\ \E c \in StreamCases : build = c.build /\ fs = c.fs
    /\ stPc = "call"
    /\ stRes = StreamError("nil", {}, "none")
    /\ DecoderIdle
    /\ EntryPointIdle
    /\ MemoryIdle
    /\ WindowsIdle

\* stream() of the build.
PlatformStream ==
    CASE build = "linux"      -> streamLinux(fs)
      [] build = "linuxSysfs" -> streamLinuxSysfs(fs)
      [] build = "solaris"    -> streamSolaris(fs)

\* What every call assigns.
StreamReturns ==
    /\ stRes' = Stream(PlatformStream)
    /\ stPc' = "returned"
    /\ UNCHANGED <<build, fs>>
    /\ UNCHANGED <<decoderVars, entryPointVars, memoryVars, windowsVars>>

\* Linux, the entry-point file exists: the sysfs files are used.
StreamSysfs ==
    /\ stPc = "call"
    /\ build \in {"linux", "linuxSysfs"}
    /\ fs.stat = "nil"
    /\ StreamReturns

\* Linux, the entry-point file does not exist: /dev/mem is scanned.
StreamDevMem ==
    /\ stPc = "call"
    /\ build = "linux"
    /\ IsNotExist(fs.stat)
    /\ StreamReturns

\* Linux, the entry-point file does not exist and the build has no scan.
StreamNotSupported ==
    /\ stPc = "call"
    /\ build = "linuxSysfs"
    /\ IsNotExist(fs.stat)
    /\ StreamReturns

\* Linux, os.Stat fails in another way: its error is returned.
StreamStatError ==
    /\ stPc = "call"
    /\ build \in {"linux", "linuxSysfs"}
    /\ fs.stat # "nil"
    /\ ~IsNotExist(fs.stat)
    /\ StreamReturns

\* Solaris: /dev/smbios holds entry point and table.
StreamSolaris ==
    /\ stPc = "call"
    /\ build = "solaris"
    /\ StreamReturns

NextStream ==
    \/ StreamSysfs
    \/ StreamDevMem
    \/ StreamNotSupported
    \/ StreamStatError
    \/ StreamSolaris

SpecStream == InitStream /\ [][NextStream]_vars

(***************************************************************************)
(* Reference notions used by the properties.                               *)
(***************************************************************************)
\* The header a serialized record carries.
HeaderOf(r) ==
    [Type |-> r.Type, Length |-> Len(r.Formatted) + headerLen, Handle |-> r.Handle]

HasEndOfTable(rs) == \E i \in 1..Len(rs) : rs[i].Type = 127

\* Index of the first end-of-table record of rs.
FirstEndOfTable(rs) ==
    CHOOSE i \in 1..Len(rs) :
        rs[i].Type = 127 /\ \A j \in 1..(i - 1) : rs[j].Type # 127

\* The string selected by a 1-based index n: absent for 0 and for n beyond
\* the vector.
AbsentOr(strings, n) ==
    IF n = 0 \/ n > Len(strings) THEN <<>> ELSE strings[n]

Succeeded == pc = "returned" /\ err = "nil"
Failed == pc = "returned" /\ err # "nil"

(***************************************************************************)
(* C1.  Whenever Decode succeeds, the returned sequence is the records of  *)
(* the stream, in stream order, up to and including the first record of    *)
(* type 127: it is non-empty, its last element has type 127, no earlier    *)
(* element has, element i carries the header and the formatted block of    *)
(* the i-th record of the stream, and the decoder has consumed exactly the *)
(* bytes of those records, nothing behind them.                            *)
(***************************************************************************)
C1_DecodeReturnsRecordsUpToEndOfTable ==
    Succeeded =>
        /\ result # <<>>
        /\ result[Len(result)].Header.Type = 127
        /\ \A i \in 1..(Len(result) - 1) : result[i].Header.Type # 127
        /\ HasEndOfTable(records)
        /\ Len(result) = FirstEndOfTable(records)
        /\ \A i \in 1..Len(result) :
              /\ result[i].Header = HeaderOf(records[i])
              /\ result[i].Formatted = records[i].Formatted
        /\ pos = Len(EncodeTable(SubSeq(records, 1, Len(result))))

\* A successful decode of three records, the first two of the same type.
C1_Witness ==
    /\ Succeeded
    /\ Len(result) = 3
    /\ result[1].Header.Type = result[2].Header.Type
    /\ result[1].Header.Handle = 5

(***************************************************************************)
(* C2.  If the stream is a well-formed sequence of records that ends       *)
(* before any record of type 127, Decode returns an error.                 *)
(***************************************************************************)
C2_TruncatedStreamReturnsError ==
    (pc # "decoding" /\ stream = EncodeTable(records) /\ ~HasEndOfTable(records))
        => Failed

(***************************************************************************)
(* C3.  Whenever Decode returns a non-nil error, the structure sequence it *)
(* returns is nil, however many records were decoded before the failure.   *)
(***************************************************************************)
C3_NoPartialResults == Failed => result = <<>>

\* An error return after two complete records were decoded.
C3_Witness == Failed /\ Len(ss) = 2

(***************************************************************************)
(* C4.  For each record with header length byte L: L < 4 is an error and   *)
(* yields no structure; L = 4 yields a structure with an empty formatted   *)
(* block; L > 4 yields a structure whose Formatted is the L-4 bytes behind *)
(* the header, and fewer than L-4 available bytes is an error.  Handle is  *)
(* the little-endian 16-bit value of header bytes 2..3.                    *)
(***************************************************************************)
C4_Step ==
    (pc = "decoding" /\ pos + 4 <= Len(stream)) =>
        LET L == stream[pos + 2] IN
        /\ L < 4 => (pc' = "returned" /\ err' # "nil" /\ ss' = ss)
        /\ (L > 4 /\ pos + L > Len(stream)) =>
               (pc' = "returned" /\ err' # "nil" /\ ss' = ss)
        /\ (L = 4 /\ parseStrings(stream, pos + 4).err = "nil") =>
               /\ Len(ss') = Len(ss) + 1
               /\ ss'[Len(ss')].Formatted = <<>>
        /\ (L > 4 /\ Len(ss') = Len(ss) + 1) =>
               ss'[Len(ss')].Formatted = SubSeq(stream, pos + 5, pos + L)
        /\ Len(ss') = Len(ss) + 1 =>
               /\ ss'[Len(ss')].Header.Length = L
               /\ ss'[Len(ss')].Header.Handle =
                      stream[pos + 3] + 256 * stream[pos + 4]

C4_HeaderLengthFraming == [][C4_Step]_vars

(***************************************************************************)
(* C5.  String-set framing.  Behind the formatted block, two zero bytes    *)
(* mean no strings and exactly those two bytes are consumed; otherwise the *)
(* strings are the zero-terminated byte strings in stream order, ending at *)
(* and consuming the first zero byte that directly follows a terminator;   *)
(* a set without such a double zero before the end of input is an error.   *)
(* Stated for the string set of the record the decoder is about to read,   *)
(* and for the strings of every structure already produced.                *)
(***************************************************************************)
\* Position of the string set of the record that starts at pos.
StringSetStart ==
    IF stream[pos + 2] < 4 THEN pos + 4 ELSE pos + stream[pos + 2]

C5_StringSetFraming ==
    /\ (pc = "decoding" /\ pos + 4 <= Len(stream) /\ StringSetStart <= Len(stream)) =>
          LET p == StringSetStart
              r == parseStrings(stream, p)
              terminated ==
                  \E q \in (p + 1)..(Len(stream) - 1) :
                      stream[q] = 0 /\ stream[q + 1] = 0
          IN /\ (r.err = "nil") <=> terminated
             /\ (terminated /\ stream[p + 1] = 0 /\ stream[p + 2] = 0) =>
                    (r.ss = <<>> /\ r.pos = p + 2)
             /\ (terminated /\ ~(stream[p + 1] = 0 /\ stream[p + 2] = 0)) =>
                    /\ r.ss # <<>>
                    /\ SubSeq(stream, p + 1, r.pos) = EncodeStringList(r.ss) \o <<0>>
                    /\ \A i \in 1..Len(r.ss) :
                          /\ \A k \in 1..Len(r.ss[i]) : r.ss[i][k] # 0
                          /\ i > 1 => r.ss[i] # <<>>
    /\ \A i \in 1..Len(ss) :
          SubSeq(ss[i].Strings, 1, Len(records[i].Strings)) = records[i].Strings

\* A structure with two framed strings has been produced and another
\* record with a non-empty string set is about to be read.
C5_Witness ==
    /\ pc = "decoding"
    /\ Len(ss) = 1
    /\ ss[1].Header.Type = 5
    /\ ss[1].Strings = <<StrA, StrBC>>
    /\ pos + 4 <= Len(stream)
    /\ StringSetStart + 2 <= Len(stream)
    /\ stream[StringSetStart + 1] # 0
    /\ parseStrings(stream, StringSetStart).err = "nil"

(***************************************************************************)
(* C6.  The Strings of every produced structure are exactly the strings    *)
(* framed from the stream for that record; nothing derived is appended.    *)
(***************************************************************************)
C6_StringsAreFramedStrings ==
    \A i \in 1..Len(ss) : ss[i].Strings = records[i].Strings

(***************************************************************************)
(* C7.  String-index safety.  For a record of type 0, 1, 2 or 17 whose     *)
(* string-index fields lie inside the formatted block, decoding does not   *)
(* fail and every string field is absent when its index n is 0 or exceeds  *)
(* the number of framed strings, and is the n-th framed string otherwise.  *)
(***************************************************************************)
C7_Step ==
    (pc = "decoding" /\ pos + 4 <= Len(stream)) =>
        LET t  == stream[pos + 1]
            L  == stream[pos + 2]
            fb == SubSeq(stream, pos + 5, pos + L)
            sr == parseStrings(stream, pos + L)
            s  == ss'[Len(ss')]
        IN (/\ L >= 4 /\ pos + L <= Len(stream) /\ sr.err = "nil"
            /\ \/ t \in {1, 2} /\ Len(fb) >= 4
               \/ t = 0 /\ Len(fb) >= 5
               \/ t = 17 /\ Len(fb) >= 23)
           =>
           /\ pc' # "panicked"
           /\ Len(ss') = Len(ss) + 1
           /\ t = 1 =>
                /\ s.SystemInfo.SystemManufacturerRef = AbsentOr(sr.ss, fb[1])
                /\ s.SystemInfo.SystemProductName = AbsentOr(sr.ss, fb[2])
                /\ s.SystemInfo.BiosSerial = AbsentOr(sr.ss, fb[4])
           /\ t = 2 =>
                /\ s.SystemInfo.BaseboardInfo[1].Manufacturer = AbsentOr(sr.ss, fb[1])
                /\ s.SystemInfo.BaseboardInfo[1].Product = AbsentOr(sr.ss, fb[2])
                /\ s.SystemInfo.BaseboardInfo[1].Version = AbsentOr(sr.ss, fb[3])
                /\ s.SystemInfo.BaseboardInfo[1].SerialNumber = AbsentOr(sr.ss, fb[4])
           /\ t = 0 =>
                /\ s.SystemInfo.BiosInfo[1].Vendor = AbsentOr(sr.ss, fb[1])
                /\ s.SystemInfo.BiosInfo[1].Version = AbsentOr(sr.ss, fb[2])
                /\ s.SystemInfo.BiosInfo[1].ReleaseDate = AbsentOr(sr.ss, fb[5])
           /\ t = 17 =>
                /\ Len(s.SystemInfo.PhyMemory) = 1 =>
                     /\ s.SystemInfo.PhyMemory[1].Manufacturer = AbsentOr(sr.ss, fb[20])
                     /\ s.SystemInfo.PhyMemory[1].SerialNumber = AbsentOr(sr.ss, fb[21])
                /\ s.SystemInfo.Memory = AbsentOr(sr.ss, fb[21])

C7_StringIndexSafety == [][C7_Step]_vars

(***************************************************************************)
(* C8.  Interpretation of a record of type 0, 1, 2, 3, 4 or 17 never       *)
(* fails: whatever the length of its formatted block, once the record is   *)
(* framed the decoder produces its structure.                              *)
(***************************************************************************)
C8_Step ==
    (pc = "decoding" /\ pos + 4 <= Len(stream)) =>
        LET t == stream[pos + 1]
            L == stream[pos + 2]
        IN (/\ t \in {0, 1, 2, 3, 4, 17}
            /\ L >= 4 /\ pos + L <= Len(stream)
            /\ parseStrings(stream, pos + L).err = "nil")
           =>
           /\ pc' # "panicked"
           /\ Len(ss') = Len(ss) + 1
           /\ ss'[Len(ss')].Formatted = SubSeq(stream, pos + 5, pos + L)

C8_InterpretationNeverFails == [][C8_Step]_vars

(***************************************************************************)
(* C9.  For a type 1 structure the projected manufacturer is the string    *)
(* selected by the index at formatted offset 0, the product name the one   *)
(* selected at offset 1, the serial number the one selected at offset 3.   *)
(***************************************************************************)
C9_SystemStringMapping ==
    \A i \in 1..Len(ss) :
        (ss[i].Header.Type = 1 /\ Len(ss[i].Formatted) >= 4) =>
            /\ ss[i].SystemInfo.SystemManufacturerRef =
                   AbsentOr(ss[i].Strings, ss[i].Formatted[1])
            /\ ss[i].SystemInfo.SystemProductName =
                   AbsentOr(ss[i].Strings, ss[i].Formatted[2])
            /\ ss[i].SystemInfo.BiosSerial =
                   AbsentOr(ss[i].Strings, ss[i].Formatted[4])

(***************************************************************************)
(* C10.  For a type 1 structure whose formatted block holds the 16 UUID    *)
(* bytes at offsets 4..20, the projected UUID is absent when they are all  *)
(* 0x00 or all 0xFF, and otherwise the upper-case hexadecimal text         *)
(* XXXXXXXX-XXXX-XXXX-XXXX-XXXXXXXXXXXX of the bytes taken in the order     *)
(* 3,2,1,0 - 5,4 - 7,6 - 8,9 - 10..15.                                     *)
(***************************************************************************)
UpperHex == <<48, 49, 50, 51, 52, 53, 54, 55, 56, 57, 65, 66, 67, 68, 69, 70>>
UUIDByteOrder == <<3, 2, 1, 0, 5, 4, 7, 6, 8, 9, 10, 11, 12, 13, 14, 15>>

\* The canonical text of the 16 bytes u (indexed 1..16).
RECURSIVE CanonicalUUIDFrom(_, _)
CanonicalUUIDFrom(u, k) ==
    IF k > 16 THEN <<>>
    ELSE (IF k \in {5, 7, 9, 11} THEN <<45>> ELSE <<>>)
         \o <<UpperHex[(u[UUIDByteOrder[k] + 1] \div 16) + 1],
              UpperHex[(u[UUIDByteOrder[k] + 1] % 16) + 1]>>
         \o CanonicalUUIDFrom(u, k + 1)

ExpectedUUID(u) ==
    IF (\A k \in 1..16 : u[k] = 0) \/ (\A k \in 1..16 : u[k] = 255)
    THEN <<>>
    ELSE CanonicalUUIDFrom(u, 1)

\* "103598A4-E271-E211-ADB1-DF8BE4841F5B"
UUIDExampleText ==
    <<49, 48, 51, 53, 57, 56, 65, 52, 45, 69, 50, 55, 49, 45, 69, 50, 49, 49, 45,
      65, 68, 66, 49, 45, 68, 70, 56, 66, 69, 52, 56, 52, 49, 70, 53, 66>>

C10_SystemUUID ==
    \A i \in 1..Len(ss) :
        (ss[i].Header.Type = 1 /\ Len(ss[i].Formatted) >= 20) =>
            /\ ss[i].SystemInfo.VirtualMachineUUID =
                   ExpectedUUID(SubSeq(ss[i].Formatted, 5, 20))
            /\ SubSeq(ss[i].Formatted, 5, 20) = UUIDExample =>
                   ss[i].SystemInfo.VirtualMachineUUID = UUIDExampleText

\* A type 1 structure with the example UUID has been produced and carries
\* the example's text.
C10_Witness ==
    \E i \in 1..Len(ss) :
        /\ ss[i].Header.Type = 1
        /\ SubSeq(ss[i].Formatted, 5, 20) = UUIDExample
        /\ ss[i].SystemInfo.VirtualMachineUUID = UUIDExampleText

(***************************************************************************)
(* Reference arithmetic on uint64 values, by repeated doubling.            *)
(***************************************************************************)
RefDouble(x) ==
    <<(2 * x[1]) % 256,
      (2 * x[2] + x[1] \div 128) % 256,
      (2 * x[3] + x[2] \div 128) % 256,
      (2 * x[4] + x[3] \div 128) % 256,
      (2 * x[5] + x[4] \div 128) % 256,
      (2 * x[6] + x[5] \div 128) % 256,
      (2 * x[7] + x[6] \div 128) % 256,
      (2 * x[8] + x[7] \div 128) % 256>>

RECURSIVE RefShiftLeft(_, _)
RefShiftLeft(x, n) == IF n = 0 THEN x ELSE RefShiftLeft(RefDouble(x), n - 1)

\* The size in bytes that the size field s at offset 8 of a type 17 record
\* and the extended size e at offset 24 stand for.
ExpectedMemoryBytes(fb) ==
    LET s == fb[9] + 256 * fb[10] IN
    IF s = 32767 /\ Len(fb) >= 30
    THEN RefShiftLeft(<<fb[25], fb[26], fb[27], fb[28], 0, 0, 0, 0>>, 20)
    ELSE IF s >= 32768
         THEN RefShiftLeft(<<fb[9], fb[10] % 128, 0, 0, 0, 0, 0, 0>>, 10)
         ELSE RefShiftLeft(<<fb[9], fb[10], 0, 0, 0, 0, 0, 0>>, 20)

(***************************************************************************)
(* C11.  The size in bytes projected for a type 17 record is the extended  *)
(* size times 1048576 when the size field is 0x7FFF and the record has at  *)
(* least 30 formatted bytes; otherwise the low 15 bits of the size field   *)
(* times 1024 when bit 15 is set and times 1048576 when it is clear.       *)
(***************************************************************************)
C11_MemorySizeInBytes ==
    \A i \in 1..Len(ss) :
        (ss[i].Header.Type = 17 /\ Len(ss[i].Formatted) >= sizeAsPer2_1) =>
            LET want == ExpectedMemoryBytes(ss[i].Formatted)
                got  == ss[i].SystemInfo.PhyMemory
            IN /\ want # U64Zero => Len(got) = 1
               /\ \A k \in 1..Len(got) : got[k].SizeInBytes = want

(***************************************************************************)
(* C12.  A framed type 17 record that has a size field is appended to the  *)
(* structures in its stream position; its projection holds no physical     *)
(* memory entry when the size field is 0, and exactly one entry when the   *)
(* size computed for it is not zero.                                       *)
(***************************************************************************)
C12_Step ==
    (pc = "decoding" /\ pos + 4 <= Len(stream)) =>
        LET t  == stream[pos + 1]
            L  == stream[pos + 2]
            fb == SubSeq(stream, pos + 5, pos + L)
            sr == parseStrings(stream, pos + L)
            s  == ss'[Len(ss')]
            size == fb[9] + 256 * fb[10]
            computedNonZero ==
                IF size = 32767 /\ Len(fb) >= 30
                THEN \E k \in 25..28 : fb[k] # 0
                ELSE size # 0
        IN (/\ t = 17 /\ L >= headerLen + sizeAsPer2_1
            /\ pos + L <= Len(stream) /\ sr.err = "nil")
           =>
           /\ Len(ss') = Len(ss) + 1
           /\ SubSeq(ss', 1, Len(ss)) = ss
           /\ s.Header.Type = 17
           /\ s.Formatted = fb
           /\ size = 0 => s.SystemInfo.PhyMemory = <<>>
           /\ Len(s.SystemInfo.PhyMemory) = IF computedNonZero THEN 1 ELSE 0
           /\ computedNonZero => s.SystemInfo.PhyMemory[1].SizeInBytes # U64Zero

C12_EmptySlotOmittedFromInventory == [][C12_Step]_vars

\* An empty slot (23 formatted bytes, size 0) has been returned in second
\* position, behind a populated slot: the populated slot's projection holds
\* one entry and the empty slot's holds none.
C12_Witness ==
    /\ Succeeded
    /\ Len(result) >= 2
    /\ result[1].Header.Type = 17
    /\ Len(result[1].SystemInfo.PhyMemory) = 1
    /\ result[2].Header.Type = 17
    /\ Len(result[2].Formatted) = 23
    /\ result[2].Formatted[9] = 0 /\ result[2].Formatted[10] = 0
    /\ result[2].SystemInfo.PhyMemory = <<>>

(***************************************************************************)
(* C13.  The core count projected for a type 4 record is the 8-bit field   *)
(* at formatted offset 31, except that the 16-bit field at offset 38 is    *)
(* used exactly when the decoder's major version is at least 3 and the     *)
(* 8-bit field is 0xFF.                                                    *)
(***************************************************************************)
C13_ProcessorCoreCount ==
    \A i \in 1..Len(ss) :
        (ss[i].Header.Type = 4 /\ Len(ss[i].Formatted) >= 40) =>
            LET fb == ss[i].Formatted
                want == IF Version.Major >= 3 /\ fb[32] = 255
                        THEN fb[39] + 256 * fb[40]
                        ELSE fb[32]
            IN ss[i].SystemInfo.Processors[1].CoreCount = want

(***************************************************************************)
(* C14.  The processor ID projected for a type 4 record is absent when the *)
(* eight bytes at formatted offsets 4..12 are all zero; otherwise it is    *)
(* the four little-endian 16-bit words at offsets 4, 6, 8 and 10, each as  *)
(* four upper-case hex digits, the word at offset 10 first and the word at *)
(* offset 4 last.                                                          *)
(***************************************************************************)
\* The four hex digits of the little-endian word whose low byte is lo.
RefWordHex(lo, hi) ==
    <<UpperHex[(hi \div 16) + 1], UpperHex[(hi % 16) + 1],
      UpperHex[(lo \div 16) + 1], UpperHex[(lo % 16) + 1]>>

ExpectedProcessorID(fb) ==
    IF \A k \in 5..12 : fb[k] = 0
    THEN <<>>
    ELSE RefWordHex(fb[11], fb[12]) \o RefWordHex(fb[9], fb[10])
         \o RefWordHex(fb[7], fb[8]) \o RefWordHex(fb[5], fb[6])

C14_ProcessorID ==
    \A i \in 1..Len(ss) :
        (ss[i].Header.Type = 4 /\ Len(ss[i].Formatted) >= 12) =>
            /\ ss[i].SystemInfo.ProcessorID = ExpectedProcessorID(ss[i].Formatted)
            /\ ss[i].SystemInfo.Processors[1].ID =
                   ExpectedProcessorID(ss[i].Formatted)

(***************************************************************************)
(* C15.  In the flow Stream, NewDecoder, Decode, the BIOS version text     *)
(* projected for a type 0 record is "major.minor" of the version carried   *)
(* by the entry point that Stream returned.                                *)
(***************************************************************************)
\* The decimal digits of a number below 1000.
RefDecimal(n) ==
    IF n < 10 THEN <<48 + n>>
    ELSE IF n < 100 THEN <<48 + (n \div 10), 48 + (n % 10)>>
    ELSE <<48 + (n \div 100), 48 + ((n \div 10) % 10), 48 + (n % 10)>>

C15_BiosVersionFromEntryPoint ==
    \A i \in 1..Len(ss) :
        (ss[i].Header.Type = 0 /\ epOut # <<>>) =>
            ss[i].SystemInfo.BiosInfo[1].BiosVersion =
                RefDecimal(EntryPointVersion(epOut[1])[1]) \o <<46>>
                \o RefDecimal(EntryPointVersion(epOut[1])[2])

(***************************************************************************)
(* Reference notions for entry points.                                     *)
(***************************************************************************)
\* The bytes of the input that ParseEntryPoint looks at.
Supplied == SubSeq(epInput, 1, IF Len(epInput) < 64 THEN Len(epInput) ELSE 64)

Is32(b) == Len(b) >= 4 /\ SubSeq(b, 1, 4) = <<95, 83, 77, 95>>
Is64(b) == Len(b) >= 5 /\ SubSeq(b, 1, 5) = <<95, 83, 77, 51, 95>>

\* b passes the anchor and length checks of its variant.
PassesAnchorAndLength(b) ==
    \/ Is32(b) /\ Len(b) >= 31 /\ b[6] = Len(b)
                /\ SubSeq(b, 17, 21) = <<95, 68, 77, 73, 95>>
    \/ Is64(b) /\ Len(b) >= 24 /\ b[7] = Len(b)

Returned == epPc = "returned"
Accepted == Returned /\ epErr = "nil" /\ epOut # <<>>
Rejected == Returned /\ epErr # "nil" /\ epOut = <<>>

(***************************************************************************)
(* C16.  ParseEntryPoint accepts an input only if its bytes sum to zero    *)
(* modulo 256, the checksum byte counted once; an input that passes the    *)
(* anchor and length checks is accepted when the sum is zero and rejected, *)
(* with no entry point, when it is not.                                    *)
(***************************************************************************)
C16_ChecksumDecides ==
    Returned =>
        /\ Accepted \/ Rejected
        /\ Accepted => SumBytes(Supplied) % 256 = 0
        /\ PassesAnchorAndLength(Supplied) =>
              IF SumBytes(Supplied) % 256 = 0
              THEN /\ Accepted
                   /\ epOut[1].Checksum = Supplied[IF Is32(Supplied) THEN 5 ELSE 6]
              ELSE Rejected /\ epErr = "invalid checksum"

\* The input of the test "32, bad checksum" has been rejected for its
\* checksum.
C16_Witness ==
    /\ Rejected
    /\ epInput = [Example32 EXCEPT ![5] = 0]
    /\ epErr = "invalid checksum"

(***************************************************************************)
(* C17.  Round trip.  A 64-bit entry point serialized by marshal64, whose  *)
(* checksum byte is the two's complement of the sum of the other bytes, is *)
(* accepted by ParseEntryPoint, and the parsed record carries the          *)
(* original's major, minor, revision, entry-point revision, reserved byte, *)
(* maximum table size and table address; with any other value in the       *)
(* checksum byte the 24 bytes are rejected.                                *)
(***************************************************************************)
C17_RoundTrip64 ==
    (Returned /\ epWant # <<>>) =>
        LET v == epWant[1]
            c == epInput[6]
            others == SumBytes(epInput) - c
            complement == (256 - (others % 256)) % 256
        IN IF c = complement
           THEN /\ epInput = marshal64(v)
                /\ Len(epInput) = 24
                /\ Accepted
                /\ epOut[1].Kind = "EntryPoint64Bit"
                /\ epOut[1].Major = v.Major
                /\ epOut[1].Minor = v.Minor
                /\ epOut[1].Revision = v.Revision
                /\ epOut[1].EntryPointRevision = v.EntryPointRevision
                /\ epOut[1].Reserved = v.Reserved
                /\ epOut[1].StructureTableMaxSize = v.StructureTableMaxSize
                /\ epOut[1].StructureTableAddress = v.StructureTableAddress
           ELSE Rejected

\* A serialized entry point with the largest table size and an address
\* with eight different bytes has been parsed back.
C17_Witness ==
    /\ Accepted
    /\ epWant # <<>>
    /\ epOut[1].StructureTableMaxSize = <<255, 255, 255, 254>>
    /\ epOut[1].StructureTableAddress = <<255, 1, 2, 3, 4, 5, 6, 7>>
    /\ epOut[1].Revision = 255

(***************************************************************************)
(* C18.  An input that is a valid entry point (length field equal to the   *)
(* record's length, bytes summing to zero) followed by further bytes is    *)
(* accepted, and the entry point returned is that of the record alone.     *)
(***************************************************************************)
\* The length field of an input that starts with an anchor.
LengthField(r) == IF Is32(r) THEN r[6] ELSE r[7]

\* r starts with a complete valid entry point that is followed by at least
\* one byte.
ValidRecordWithTrailer(r) ==
    /\ Len(r) >= 7
    /\ Is32(r) \/ Is64(r)
    /\ LengthField(r) < Len(r)
    /\ PassesAnchorAndLength(SubSeq(r, 1, LengthField(r)))
    /\ SumBytes(SubSeq(r, 1, LengthField(r))) % 256 = 0

C18_TrailingBytesIgnored ==
    (Returned /\ ValidRecordWithTrailer(epInput)) =>
        /\ Accepted
        /\ epOut = ParseEntryPoint(SubSeq(epInput, 1, LengthField(epInput))).ep

(***************************************************************************)
(* C19.  ParseEntryPoint returns an error and no entry point when the      *)
(* bytes it is given are fewer than 4, start with neither anchor, are      *)
(* fewer than 31 behind "_SM_" or fewer than 24 behind "_SM3_", differ in  *)
(* number from the length field, or, behind "_SM_", do not hold "_DMI_" at *)
(* 16..21.  No input matches both anchors.                                 *)
(***************************************************************************)
Malformed(b) ==
    \/ Len(b) < 4
    \/ ~Is32(b) /\ ~Is64(b)
    \/ Is32(b) /\ Len(b) < 31
    \/ Is64(b) /\ Len(b) < 24
    \/ Is32(b) /\ Len(b) >= 31 /\ b[6] # Len(b)
    \/ Is64(b) /\ Len(b) >= 24 /\ b[7] # Len(b)
    \/ Is32(b) /\ Len(b) >= 31 /\ SubSeq(b, 17, 21) # <<95, 68, 77, 73, 95>>

C20_VersionAndTable ==
    Accepted =>
        LET b == Supplied
            e == epOut[1]
        IN /\ Is32(b) =>
                /\ EntryPointVersion(e) = <<b[7], b[8], 0>>
                /\ EntryPointTable(e) =
                       << <<b[28], b[27], b[26], b[25]>>, b[23] + 256 * b[24] >>
           /\ Is64(b) =>
                /\ EntryPointVersion(e) = <<b[8], b[9], b[10]>>
                /\ EntryPointTable(e) =
                       << <<b[24], b[23], b[22], b[21], b[20], b[19], b[18], b[17]>>,
                          <<b[16], b[15], b[14], b[13]>> >>
           /\ epInput = Example32 =>
                /\ EntryPointVersion(e) = <<2, 8, 0>>
                /\ EntryPointTable(e) = << <<122, 240, 144, 0>>, 3935 >>
           /\ epInput = Example64 =>
                /\ EntryPointVersion(e) = <<3, 0, 0>>
                /\ EntryPointTable(e) =
                       << <<0, 0, 0, 0, 0, 14, 179, 176>>, <<0, 0, 9, 83>> >>

\* A 64-bit entry point with revision 255 has been parsed and reports it.
C20_Witness ==
    /\ Accepted
    /\ Is64(epInput)
    /\ EntryPointVersion(epOut[1]) = <<3, 1, 255>>
    /\ EntryPointTable(epOut[1]) =
           << <<0, 0, 0, 0, 0, 0, 0, 240>>, <<0, 0, 2, 0>> >>

(***************************************************************************)
(* C27.  The manufacturer string projected for a type 4 record with string *)
(* index n and k strings is absent when n = 0 or n > k and is otherwise    *)
(* the n-th string (1-based), as for every other type.                     *)
(***************************************************************************)
C27_ProcessorManufacturerIndex ==
    \A i \in 1..Len(ss) :
        (ss[i].Header.Type = 4 /\ Len(ss[i].Formatted) >= 4) =>
            ss[i].SystemInfo.Processors[1].Product =
                AbsentOr(ss[i].Strings, ss[i].Formatted[4])

(***************************************************************************)
(* C28.  Framer totality.  When Decode succeeds, the number of bytes it    *)
(* consumed is the sum over the returned structures of 4, the length of    *)
(* the formatted block and the size of the string set: 2 for no strings,   *)
(* otherwise the lengths of the strings, one terminator each, and one      *)
(* final terminator.                                                       *)
(***************************************************************************)
RECURSIVE RefStringBytes(_)
RefStringBytes(strings) ==
    IF strings = <<>> THEN 0
    ELSE Len(Head(strings)) + 1 + RefStringBytes(Tail(strings))

RefStringSetSize(strings) ==
    IF strings = <<>> THEN 2 ELSE RefStringBytes(strings) + 1

RECURSIVE RefEncodedSize(_)
RefEncodedSize(structures) ==
    IF structures = <<>> THEN 0
    ELSE 4 + Len(Head(structures).Formatted)
         + RefStringSetSize(Head(structures).Strings)
         + RefEncodedSize(Tail(structures))

C28_FramerTotality == Succeeded => pos = RefEncodedSize(result)

(***************************************************************************)
(* C29.  The Formatted block of a structure is storage of its own, never a *)
(* slice of the Decoder's reusable buffer: each further call of next, which*)
(* overwrites that buffer with the next header and formatted block, leaves *)
(* the Header, the Formatted bytes and the Strings of every structure      *)
(* produced before it as they were.                                        *)
(***************************************************************************)
C29_Step ==
    /\ sharesBuf' = {}
    /\ Len(ss') >= Len(ss)
    /\ \A i \in 1..Len(ss) :
          /\ ss'[i].Header = ss[i].Header
          /\ ss'[i].Formatted = ss[i].Formatted
          /\ ss'[i].Strings = ss[i].Strings

C29_FormattedIsFreshCopy == [][C29_Step]_vars

\* Two records decoded, and the buffer, overwritten by the second, no
\* longer holds the bytes of the first structure's formatted block.
C29_Witness ==
    /\ Len(ss) >= 2
    /\ Len(ss[1].Formatted) > 0
    /\ Len(db) >= Len(ss[1].Formatted)
    /\ SubSeq(db, 1, Len(ss[1].Formatted)) # ss[1].Formatted

(***************************************************************************)
(* C21.  findEntryPoint returns an address exactly when some whole 16-byte *)
(* paragraph at start + 16k inside the window [start, end) begins with the *)
(* anchor bytes, and then it returns the lowest such address; anchors in   *)
(* front of start, at or behind end, or off the paragraph grid are never   *)
(* returned, and without a matching paragraph the result is an error.      *)
(***************************************************************************)
AnchorParagraphs(rs, start, end) ==
    {a \in start..(end - 1) :
        /\ (a - start) % 16 = 0
        /\ a + 16 <= SizeOf(rs)
        /\ \A i \in 1..Len(magicPrefix) : ByteAt(rs, a + i - 1) = magicPrefix[i]}

Lowest(S) == CHOOSE a \in S : \A c \in S : a <= c

MemoryStreamReturned == msPc \in {"returned", "changed"}

RECURSIVE RefLittleEndian(_)
RefLittleEndian(bytes) ==
    IF bytes = <<>> THEN 0 ELSE bytes[1] + 256 * RefLittleEndian(Tail(bytes))

\* The entry point record that starts at address a, cut at its length field.
RefRecordAt(rs, a) ==
    LET r == ReadFrom(rs, a) IN
    IF Len(r) >= 7 /\ LengthField(r) <= Len(r)
    THEN SubSeq(r, 1, LengthField(r)) ELSE r

ValidEntryPointAt(rs, a) ==
    LET r == RefRecordAt(rs, a) IN
    /\ PassesAnchorAndLength(r)
    /\ SumBytes(r) % 256 = 0

RefTableAddress(r) ==
    IF Is32(r) THEN RefLittleEndian(SubSeq(r, 25, 28))
    ELSE RefLittleEndian(SubSeq(r, 17, 24))
RefTableSize(r) ==
    IF Is32(r) THEN RefLittleEndian(SubSeq(r, 23, 24))
    ELSE RefLittleEndian(SubSeq(r, 13, 16))

C22_MemoryStreamDeliversTable ==
    MemoryStreamReturned =>
        \A a \in AnchorParagraphs(image, startAddr, endAddr) :
            (a = Lowest(AnchorParagraphs(image, startAddr, endAddr))
             /\ ValidEntryPointAt(image, a)) =>
                LET r == RefRecordAt(image, a)
                    addr == RefTableAddress(r)
                    size == RefTableSize(r)
                IN
                IF size = 0 \/ addr + size <= SizeOf(image)
                THEN /\ msErr = "nil"
                     /\ msOut = <<[i \in 1..size |-> ByteAt(image, addr + i - 1)]>>
                ELSE /\ msErr # "nil"
                     /\ msOut = <<>>

(***************************************************************************)
(* C23.  Windows source validation: with n bytes written to the buffer and *)
(* the 32-bit table length t of bytes 4..8, the open returns an error and  *)
(* no stream whenever n < 8 or t > n - 8, for every t up to 2^32 - 1, also *)
(* where 8 + t wraps around; it never runs into a slice outside the buffer *)
(* and never hands out a shortened table.                                  *)
(***************************************************************************)
WindowsDone == winPc \in {"returned", "panicked"}

\* t > n - 8 for the table length t in bytes 4..8 of the data, n >= 8.
RefLengthExceeds(d, n) ==
    d[7] # 0 \/ d[8] # 0 \/ d[5] + 256 * d[6] > n - 8

\* The buffer must be refused: the call did not fill it, it is shorter
\* than the header, or the table length passes its end.
RefWindowsInvalid ==
    \/ winR1 = 0
    \/ winR2 = 0
    \/ winR2 > winR1
    \/ winR2 < 8
    \/ RefLengthExceeds(winData, winR2)

C23_WindowsValidation ==
    WindowsDone =>
        /\ winPc # "panicked"
        /\ RefWindowsInvalid => (winErr # "nil" /\ winEp = <<>> /\ winOut = <<>>)

(***************************************************************************)
(* C24.  On a valid Windows buffer, filled to its end, with table length   *)
(* t <= n - 8, the entry point returned reports Table() = (0, t) and       *)
(* Version() = (byte 1, byte 2, byte 3) of the buffer, and the stream      *)
(* delivers exactly the buffer bytes 8 .. 8+t, also when the buffer is     *)
(* longer than 8 + t.                                                      *)
(***************************************************************************)
RefWindowsValid ==
    /\ winR1 = winR2
    /\ winR2 >= 8
    /\ winR2 = Len(winData)
    /\ ~RefLengthExceeds(winData, winR2)

StreamReturned == stPc = "returned"

C25_LinuxFallThrough ==
    (StreamReturned /\ build \in {"linux", "linuxSysfs"}) =>
        CASE fs.stat = "nil" ->
               /\ stRes.path = "sysfs"
               /\ (/\ fs.openErr["/sys/firmware/dmi/tables/smbios_entry_point"] = "nil"
                   /\ fs.openErr["/sys/firmware/dmi/tables/DMI"] = "nil"
                   /\ ParseEntryPoint(fs.entryPoint).err = "nil")
                  => (/\ stRes.err = "nil"
                      /\ stRes.ep = ParseEntryPoint(fs.entryPoint).ep
                      /\ stRes.out = <<fs.dmi>>)
          [] fs.stat = "ENOENT" ->
               /\ stRes.path = "devmem"
               /\ fs.openErr["/dev/mem"] = "nil" =>
                     LET r == memoryStream(fs.mem, devMemStartAddr, devMemEndAddr) IN
                     /\ stRes.err = r.err
                     /\ stRes.ep = r.ep
                     /\ stRes.out = r.out
          [] OTHER ->
               /\ stRes.err = fs.stat
               /\ stRes.ep = <<>>
               /\ stRes.out = <<>>

(***************************************************************************)
(* C26.  On Solaris, when /dev/smbios holds a valid entry point followed   *)
(* at once by the table bytes, stream() parses the entry point, returns    *)
(* the same handle, and the first byte read from the returned stream is    *)
(* the first byte of the table, the byte right behind the entry-point      *)
(* record.                                                                 *)
(***************************************************************************)
\* The file starts with a complete valid entry point and goes on behind it.
EntryPointThenTable(file) ==
    /\ Len(file) >= 7
    /\ Is32(file) \/ Is64(file)
    /\ LengthField(file) < Len(file)
    /\ PassesAnchorAndLength(SubSeq(file, 1, LengthField(file)))
    /\ SumBytes(SubSeq(file, 1, LengthField(file))) % 256 = 0

C26_SolarisStreamStartsAtTable ==
    (/\ StreamReturned
     /\ build = "solaris"
     /\ fs.openErr["/dev/smbios"] = "nil"
     /\ EntryPointThenTable(fs.smbios)) =>
        /\ stRes.err = "nil"
        /\ stRes.handle = "/dev/smbios"
        /\ stRes.out # <<>>
        /\ stRes.out[1] # <<>>
        /\ stRes.out[1][1] = fs.smbios[LengthField(fs.smbios) + 1]

(***************************************************************************)
(* C30.  Every file handle a platform stream function opens is, when the   *)
(* function returns, either the stream handed to the caller or closed: no  *)
(* error return leaves a handle open, and the /dev/mem handle is closed    *)
(* whenever memoryStream's result is returned.                             *)
(***************************************************************************)
C30_NoHandleLeftOpen ==
    StreamReturned =>
        /\ stRes.err # "nil" => stRes.open = {}
        /\ stRes.err = "nil" => stRes.open \subseteq {stRes.handle}
        /\ "/dev/mem" \notin stRes.open
====
